---- MODULE Spec2Model ----
(***************************************************************************)
(* Model of the upcoming-event extraction engine (extractUpcomingFromText  *)
(* in Dashboard.js and UploadsPage.js) and of the event-draft              *)
(* reconciliation in the two calendar panels (createFromDraft,             *)
(* createFromComposer), of the summary loading of the Dashboard page       *)
(* (fetchSummary, startSummarize) and of the calls the page has in flight  *)
(* while the user selects and deletes meetings (SpecDash).                 *)
(*                                                                         *)
(* Time is counted in minutes.  A JavaScript Date is modelled by the       *)
(* number of minutes since 1970-01-01T00:00 of the viewer's local time     *)
(* line (the miner never leaves local time); the calendar panels also use  *)
(* UTC, which is local time minus the viewer's offset tz.                  *)
(* A text is modelled by the sequence of its regex matches, left to right: *)
(* each match is a record of the capture groups of the recognizer that     *)
(* matches it.                                                             *)
(*                                                                         *)
(* A value that is used several times is bound through a one-element set   *)
(* (CHOOSE r \in { f(v) : v \in {e} } : TRUE, or \E v \in {e} : ...), so   *)
(* that it is computed once.                                               *)
(***************************************************************************)
EXTENDS Integers, Sequences, FiniteSets, TLC

VARIABLES
    arg,         \* miner input: what kind of value is passed as text
    text,        \* miner input: the matches of the three recognizers, in text order
    header,      \* miner input: the beginning of the text, as the header regexes see it
    now,         \* the clock: new Date() read at scan time, [min, frac]
    dash,        \* last run of Dashboard.js extractUpcomingFromText: [ran, out, dedup, result]
    upl,         \* last run of UploadsPage.js extractUpcomingFromText: [ran, out, dedup, result]
    tz,          \* viewer's UTC offset in minutes (local = UTC + tz)
    panel,       \* which calendar panel is mounted: "drafts" (CalendarPanel.jsx) or "composer" (part_009)
    upcoming,    \* the upcoming list handed to the panel
    drafts,      \* CalendarPanel.jsx: drafts state
    composer,    \* part_009: title / date / startTime / endTime / description state
    busy,        \* busy state
    err,         \* err state: [msg, status]
    events,      \* events state
    connected,   \* part_009: connected state
    inflight,    \* calendar requests sent and not yet answered, with the handler awaiting each
    lastBody,    \* body of the latest create-event request in flight, with the fields it was made from
    userChanges, \* number of userId changes so far
    normalized,  \* payload.normalized of the summary response the page last applied
    page,        \* the page that loads the summary: its component, the handler in progress,
                 \* the poll attempts, summary.status, loadingUpcoming, whether there are meetings
    meetings,    \* Dashboard.js: ids of the meetings state
    selectedId,  \* Dashboard.js: selectedId state, 0 for null
    deletingId,  \* Dashboard.js: deletingId state, 0 for null
    requests,    \* Dashboard.js: calls of the async handlers in progress, each awaiting an answer
    owner,       \* Dashboard.js: the meeting whose data the summary and transcripts states hold
    clicks       \* Dashboard.js: number of clicks of the user so far

vars == <<arg, text, header, now, dash, upl, tz, panel, upcoming, drafts, composer, busy, err,
          events, connected, inflight, lastBody, userChanges, normalized, page,
          meetings, selectedId, deletingId, requests, owner, clicks>>
minerVars == <<arg, text, header, now, dash, upl>>
calVars == <<tz, panel, upcoming, drafts, composer, busy, err, events, connected, inflight,
             lastBody, userChanges>>
calRest == <<tz, panel, drafts, composer, busy, err, events, connected, inflight,
             lastBody, userChanges>>
panelRest == <<tz, panel, composer, busy, err, events, connected, inflight, lastBody,
               userChanges>>
dashVars == <<meetings, selectedId, deletingId, requests, owner, clicks>>
loadVars == <<normalized, page, meetings, selectedId, deletingId, requests, owner, clicks>>

\* null for an ISO date-time string kept as its fields
NullISO == [y |-> 0, mo |-> 0, d |-> 0, hh |-> 0, mm |-> 0]

(***************************************************************************)
(* Bounds                                                                  *)
(***************************************************************************)
MaxLen == 2        \* longest text drawn from the full match alphabet
MaxLong == 13      \* longest text of the many-dates family
MaxUserChanges == 1  \* userId changes while the panel is mounted
MaxSugg == 13      \* longest schedule_suggestions list of the backend
MaxUpcoming == 11  \* longest upcoming list handed to the drafts panel

(***************************************************************************)
(* Program constants                                                       *)
(***************************************************************************)
CapDashboard == 8
CapUploads == 12
DefaultHour == 10
BareHourPmLimit == 7

(***************************************************************************)
(* JavaScript Date arithmetic                                              *)
(***************************************************************************)
\* days from 1970-01-01 to the civil date y-m-d (m in 1..12, d any integer)
DaysFromCivil(y, m, d) ==
    LET yy  == IF m <= 2 THEN y - 1 ELSE y
        era == yy \div 400
        yoe == yy - era * 400
        mp  == (m + 9) % 12
        doy == (153 * mp + 2) \div 5 + d - 1
        doe == yoe * 365 + yoe \div 4 - yoe \div 100 + doy
    IN  era * 146097 + doe - 719468

\* the civil date of a day number
CivilFromDays(z) ==
    LET zz  == z + 719468
        era == zz \div 146097
        doe == zz - era * 146097
        yoe == (doe - doe \div 1460 + doe \div 36524 - doe \div 146096) \div 365
        doy == doe - (365 * yoe + yoe \div 4 - yoe \div 100)
        mp  == (5 * doy + 2) \div 153
        d   == doy - (153 * mp + 2) \div 5 + 1
        m   == IF mp < 10 THEN mp + 3 ELSE mp - 9
        y   == yoe + era * 400 + (IF m <= 2 THEN 1 ELSE 0)
    IN  [y |-> y, mo |-> m, d |-> d]

\* new Date(y, monthIndex, d, hh, mm, 0): out-of-range fields carry over,
\* and a year 0..99 means 1900 + year
NewDate(y, monthIndex, d, hh, mm) ==
    CHOOSE t \in
        { (DaysFromCivil(a.y + a.mi \div 12, (a.mi % 12) + 1, 1) + a.d - 1) * 1440
              + a.hh * 60 + a.mm :
          a \in {[y |-> IF y >= 0 /\ y <= 99 THEN 1900 + y ELSE y,
                  mi |-> monthIndex, d |-> d, hh |-> hh, mm |-> mm]} } : TRUE

\* getFullYear / getMonth + 1 / getDate / getHours / getMinutes of a Date
FieldsOfMinutes(v) ==
    CHOOSE f \in
        { [y |-> c.y, mo |-> c.mo, d |-> c.d, hh |-> (v % 1440) \div 60, mm |-> v % 60] :
          c \in {CivilFromDays(v \div 1440)} } : TRUE

Fields(t) == CHOOSE f \in { FieldsOfMinutes(v) : v \in {t} } : TRUE

\* toLocalISO(dateObj): the string yyyy-mm-ddThh:mm:ss, kept as its fields
\* (the seconds are always 00 here)
toLocalISO(t) == Fields(t)

\* new Date(str) of a string written by toLocalISO
ParseLocalISO(s) == NewDate(s.y, s.mo - 1, s.d, s.hh, s.mm)

\* dt.setFullYear(dt.getFullYear() + 1)
SetFullYearPlusOne(t) ==
    CHOOSE r \in { NewDate(f.y + 1, f.mo - 1, f.d, f.hh, f.mm) : f \in {Fields(t)} } : TRUE

\* comparisons of a Date dt (whole minutes) with now = [min, frac]
After(dt, n) == dt > n.min
NotBefore(dt, n) == dt > n.min \/ (dt = n.min /\ n.frac = 0)
Before(dt, n) == dt < n.min \/ (dt = n.min /\ n.frac > 0)

(***************************************************************************)
(* DateMiner: shared helpers                                               *)
(***************************************************************************)
\* The passes read the clock again, new Date().getFullYear(), for every
\* slash or month-name match without a year.  These reads come after the read
\* of now: when now is in the last minute of a year they can fall in the next
\* year.  A clock [min, frac, turn, k] is now together with turn, the number
\* of slash and month-name matches handled before the year changes, and k,
\* the place of the match being handled among them.
Clock(n, turn) == [min |-> n.min, frac |-> n.frac, turn |-> turn, k |-> 0]
At(c, k) == [c EXCEPT !.k = k]

\* the year may change during the scan
CanTurn(n) == n.frac > 0 /\ Fields(n.min + 1).y # Fields(n.min).y

\* the values of turn a scan of txt started at n can meet; the largest is a
\* scan that ends within the year of now
Turns(txt, n) ==
    LET last == Len(SelectSeq(txt, LAMBDA m : m.kind \in {"slash", "month"}))
    IN  IF CanTurn(n) THEN 0..last ELSE {last}

\* new Date().getFullYear() inside the passes; on a bare now, the year of now
CurrentYear(c) ==
    IF "turn" \in DOMAIN c /\ c.k > c.turn THEN Fields(c.min).y + 1 ELSE Fields(c.min).y

\* parseTimeBits(str) applied to the time capture of a match: null when the
\* capture is empty, else the 24-hour hour and the minutes
\* mutant: the rule for an hour without am/pm is missing
parseTimeBits_NoBareRule(m) ==
    IF ~m.hasTime THEN [isNull |-> TRUE, h24 |-> 0, m |-> 0]
    ELSE LET h0 == m.h
             h1 == IF m.ap = "pm" /\ h0 < 12 THEN h0 + 12 ELSE h0
             h2 == IF m.ap = "am" /\ h1 = 12 THEN 0 ELSE h1
         IN  [isNull |-> FALSE, h24 |-> h2, m |-> IF m.hasMin THEN m.mi ELSE 0]

parseTimeBits(m) ==
    IF ~m.hasTime THEN [isNull |-> TRUE, h24 |-> 0, m |-> 0]
    ELSE LET h0 == m.h
             h1 == IF m.ap = "pm" /\ h0 < 12 THEN h0 + 12 ELSE h0
             h2 == IF m.ap = "am" /\ h1 = 12 THEN 0 ELSE h1
             h3 == IF m.ap = "" /\ h2 <= BareHourPmLimit THEN h2 + 12 ELSE h2
         IN  [isNull |-> FALSE, h24 |-> h3, m |-> IF m.hasMin THEN m.mi ELSE 0]

\* tb?.h24 ?? 10 and tb?.m ?? 0
HourOf(tb) == IF tb.isNull THEN DefaultHour ELSE tb.h24
MinuteOf(tb) == IF tb.isNull THEN 0 ELSE tb.m

\* the object pushed to out for match m with Date dt
Event(m, dt) ==
    [title |-> "Follow-up meeting", start_iso |-> toLocalISO(dt), end_iso |-> NullISO,
     description |-> <<"Auto-detected: ", m>>, source |-> m]

\* text.matchAll(re) for one of the three recognizers
matchAll(txt, kind) == SelectSeq(txt, LAMBDA m : m.kind = kind)

RECURSIVE Flatten(_)
Flatten(ss) == IF ss = <<>> THEN <<>> ELSE Head(ss) \o Flatten(Tail(ss))

\* the loop "for (const it of out) { if (seen.has(it.start_iso)) continue; ... }"
RECURSIVE DedupLoop(_, _)
DedupLoop(out, seen) ==
    IF out = <<>> THEN <<>>
    ELSE IF Head(out).start_iso \in seen THEN DedupLoop(Tail(out), seen)
    ELSE <<Head(out)>> \o DedupLoop(Tail(out), seen \cup {Head(out).start_iso})

\* mutant: the "continue" is missing, every candidate is kept
Dedup_KeepAll(out) == out

\* mutant: the seen set is keyed on the calendar day instead of start_iso
RECURSIVE DedupLoop_ByDay(_, _)
DedupLoop_ByDay(out, seen) ==
    IF out = <<>> THEN <<>>
    ELSE LET s == Head(out).start_iso
             day == <<s.y, s.mo, s.d>>
         IN  IF day \in seen THEN DedupLoop_ByDay(Tail(out), seen)
             ELSE <<Head(out)>> \o DedupLoop_ByDay(Tail(out), seen \cup {day})

Dedup_ByDay(out) == DedupLoop_ByDay(out, {})

Dedup(out) == DedupLoop(out, {})

\* mutant: the slice is missing
Slice_All(arr, n) == arr

\* arr.slice(0, n)
Slice(arr, n) == SubSeq(arr, 1, IF Len(arr) < n THEN Len(arr) ELSE n)

\* mutant: only "!text" is tested
EarlyReturn_FalsyOnly(a) == a \in {"empty", "null", "undefined"}

\* if (!text || typeof text !== "string") return [];
EarlyReturn(a) == a \in {"empty", "null", "undefined"} \/ a \notin {"string", "empty"}

\* a call of extractUpcomingFromText: the early return, else the passes; on
\* a value that is not a string text.matchAll is not a function
Call(a, passes) ==
    IF EarlyReturn(a)
    THEN [ran |-> TRUE, threw |-> FALSE, out |-> <<>>, dedup |-> <<>>, result |-> <<>>]
    ELSE IF a \notin {"string", "empty"}
    THEN [ran |-> TRUE, threw |-> TRUE, out |-> <<>>, dedup |-> <<>>, result |-> <<>>]
    ELSE [ran |-> TRUE, threw |-> FALSE] @@ passes

(***************************************************************************)
(* DateMiner, Dashboard.js (no anchor, cap 8)                              *)
(***************************************************************************)
\* mutant: a date without a time is taken at midnight
IsoDate_Midnight(m) ==
    NewDate(m.y, m.mo - 1, m.d, IF m.hasTime THEN m.h ELSE 0, IF m.hasTime THEN m.mi ELSE 0)

\* the date of an ISO match: the time defaults to 10:00
IsoDate(m) ==
    NewDate(m.y, m.mo - 1, m.d, IF m.hasTime THEN m.h ELSE DefaultHour,
            IF m.hasTime THEN m.mi ELSE 0)

DashIsoBody(m, n) ==
    LET dt == IsoDate(m) IN IF After(dt, n) THEN <<Event(m, dt)>> ELSE <<>>

DashSlashDate(m, n) ==
    LET y0 == IF m.hasYear THEN m.y ELSE CurrentYear(n)
        y  == IF y0 < 100 THEN y0 + 2000 ELSE y0
        tb == parseTimeBits(m)
    IN  NewDate(y, m.mo - 1, m.d, HourOf(tb), MinuteOf(tb))

DashSlashBody(m, n) ==
    LET dt == DashSlashDate(m, n) IN IF After(dt, n) THEN <<Event(m, dt)>> ELSE <<>>

\* the month-name date before the roll-forward of line 102
DashMonthDate0(m, n) ==
    LET y  == IF m.hasYear THEN m.y ELSE CurrentYear(n)
        tb == parseTimeBits(m)
    IN  NewDate(y, m.mo - 1, m.d, HourOf(tb), MinuteOf(tb))

\* mutant: no roll-forward
DashRollForward_None(m, dt, n) == dt

\* if (!m[3] && dt < now) dt.setFullYear(dt.getFullYear() + 1)
DashRollForward(m, dt, n) ==
    IF ~m.hasYear /\ Before(dt, n) THEN SetFullYearPlusOne(dt) ELSE dt

DashMonthDate(m, n) == DashRollForward(m, DashMonthDate0(m, n), n)

DashMonthBody(m, n) ==
    LET dt == DashMonthDate(m, n) IN IF After(dt, n) THEN <<Event(m, dt)>> ELSE <<>>

\* out after the three passes, in the order the code runs them
DashOut(txt, n) ==
    LET iso == matchAll(txt, "iso")
        sl  == matchAll(txt, "slash")
        mn  == matchAll(txt, "month")
    IN  Flatten([i \in 1..Len(iso) |-> DashIsoBody(iso[i], n)])
        \o Flatten([i \in 1..Len(sl) |-> DashSlashBody(sl[i], At(n, i))])
        \o Flatten([i \in 1..Len(mn) |-> DashMonthBody(mn[i], At(n, Len(sl) + i))])

\* mutant: slice(-8), the last candidates are kept
DashCap_Last(dedup) ==
    SubSeq(dedup, IF Len(dedup) > CapDashboard THEN Len(dedup) - CapDashboard + 1 ELSE 1,
           Len(dedup))

DashCap(dedup) == Slice(dedup, CapDashboard)

extractUpcomingFromText_Dashboard(txt, n) ==
    LET out == DashOut(txt, n)
        dedup == Dedup(out)
    IN  [out |-> out, dedup |-> dedup, result |-> DashCap(dedup)]

(***************************************************************************)
(* DateMiner, UploadsPage.js (anchor year, sort, cap 12)                   *)
(***************************************************************************)
\* const head = text.slice(0, 600)
HeadLen == 600

\* The beginning of the text as the two header regexes see it: the sequence,
\* from left to right, of its runs of four or more digits that start at a word
\* boundary.  y is the number written by the first four digits, at the offset
\* of the first of them, more the number of digits that follow the four
\* directly; kind "date" when "Date:", a word of 3 to 9 letters, a day and an
\* optional comma come right before the digits, "num" otherwise.
HeadToken(kind, y, at, more) == [kind |-> kind, y |-> y, at |-> at, more |-> more]

\* the four digits lie in head and a word boundary follows them there: a
\* character that is not a digit, or the end of head
InHead(t) == t.at + 4 <= HeadLen /\ (t.more = 0 \/ t.at + 4 = HeadLen)

\* head.match(/\bDate:\s*(?:[A-Za-z]{3,9}\.?\s+\d{1,2}(?:st|nd|rd|th)?(?:,\s*)?(\d{4}))\b/i)
y1(hd) == SelectSeq(hd, LAMBDA t : t.kind = "date" /\ InHead(t))

\* head.match(/\b(20\d{2})\b/)
y2(hd) == SelectSeq(hd, LAMBDA t : InHead(t) /\ t.y \div 100 = 20)

\* mutant: the first bare 20xx number is preferred to the "Date:" header
AnchorYear_BareFirst(hd) ==
    IF y2(hd) # <<>> THEN Head(y2(hd)).y ELSE IF y1(hd) # <<>> THEN Head(y1(hd)).y ELSE 0

\* anchorYear: the year of the "Date:" header (y1) if it matches, else the
\* first bare 20xx number (y2), else null (0)
AnchorYear(hd) ==
    IF y1(hd) # <<>> THEN Head(y1(hd)).y ELSE IF y2(hd) # <<>> THEN Head(y2(hd)).y ELSE 0

UplIsoBody(m, n) ==
    LET dt == IsoDate(m) IN IF NotBefore(dt, n) THEN <<Event(m, dt)>> ELSE <<>>

\* mutant: the anchor year is looked at first
UplSlashYear_AnchorFirst(m, anchorYear, n) ==
    IF anchorYear # 0 THEN anchorYear
    ELSE IF m.hasYear THEN (IF m.y < 100 THEN m.y + 2000 ELSE m.y)
    ELSE CurrentYear(n)

\* year of a slash match: written (two digits promoted), else anchor, else current
UplSlashYear(m, anchorYear, n) ==
    IF m.hasYear THEN (IF m.y < 100 THEN m.y + 2000 ELSE m.y)
    ELSE IF anchorYear # 0 THEN anchorYear
    ELSE CurrentYear(n)

UplSlashDate(m, anchorYear, n) ==
    LET tb == parseTimeBits(m)
    IN  NewDate(UplSlashYear(m, anchorYear, n), m.mo - 1, m.d, HourOf(tb), MinuteOf(tb))

UplSlashBody(m, anchorYear, n) ==
    LET dt == UplSlashDate(m, anchorYear, n)
    IN  IF NotBefore(dt, n) THEN <<Event(m, dt)>> ELSE <<>>

UplMonthYear(m, anchorYear, n) ==
    IF m.hasYear THEN m.y
    ELSE IF anchorYear # 0 THEN anchorYear
    ELSE CurrentYear(n)

UplMonthDate(m, anchorYear, n) ==
    LET tb == parseTimeBits(m)
    IN  NewDate(UplMonthYear(m, anchorYear, n), m.mo - 1, m.d, HourOf(tb), MinuteOf(tb))

UplMonthBody(m, anchorYear, n) ==
    LET dt == UplMonthDate(m, anchorYear, n)
    IN  IF NotBefore(dt, n) THEN <<Event(m, dt)>> ELSE <<>>

UplOut(txt, hd, n) ==
    LET a   == AnchorYear(hd)
        iso == matchAll(txt, "iso")
        sl  == matchAll(txt, "slash")
        mn  == matchAll(txt, "month")
    IN  Flatten([i \in 1..Len(iso) |-> UplIsoBody(iso[i], n)])
        \o Flatten([i \in 1..Len(sl) |-> UplSlashBody(sl[i], a, At(n, i))])
        \o Flatten([i \in 1..Len(mn) |-> UplMonthBody(mn[i], a, At(n, Len(sl) + i))])

\* dedup.sort((a, b) => new Date(a.start_iso) - new Date(b.start_iso)): a
\* stable sort, here by insertion
RECURSIVE InsertSorted(_, _)
InsertSorted(e, sorted) ==
    IF sorted = <<>> THEN <<e>>
    ELSE IF ParseLocalISO(e.start_iso) < ParseLocalISO(Head(sorted).start_iso)
         THEN <<e>> \o sorted
         ELSE <<Head(sorted)>> \o InsertSorted(e, Tail(sorted))

RECURSIVE SortFrom(_, _)
SortFrom(arr, k) ==
    IF k = 0 THEN <<>> ELSE InsertSorted(arr[k], SortFrom(arr, k - 1))

\* mutant: the sort is missing
SortByStart_None(arr) == arr

SortByStart(arr) == SortFrom(arr, Len(arr))

UplCap(sorted) == Slice(sorted, CapUploads)

extractUpcomingFromText_Uploads(txt, hd, n) ==
    LET out == UplOut(txt, hd, n)
        dedup == Dedup(out)
    IN  [out |-> out, dedup |-> dedup, result |-> UplCap(SortByStart(dedup))]

(***************************************************************************)
(* Calendar panels: helpers                                                *)
(* A Date of the panels is the number of minutes since 1970-01-01T00:00Z.  *)
(* Date strings of the inputs are records [s, y, mo, d], time strings      *)
(* [s, hh, mm]: s = "" is the empty string, s = "bad" a string that does   *)
(* not parse, any other s a well-formed value.                             *)
(***************************************************************************)
EmptyDate == [s |-> "", y |-> 0, mo |-> 0, d |-> 0]
EmptyTime == [s |-> "", hh |-> 0, mm |-> 0]
BadTime == [s |-> "bad", hh |-> 0, mm |-> 0]
BadDate == [s |-> "bad", y |-> 0, mo |-> 0, d |-> 0]
DateStr(y, mo, d) == [s |-> "ymd", y |-> y, mo |-> mo, d |-> d]
TimeStr(hh, mm) == [s |-> "hm", hh |-> hh, mm |-> mm]

\* an ISO string that does not parse
BadISO == [y |-> -1, mo |-> 0, d |-> 0, hh |-> 0, mm |-> 0]

\* d.toISOString(): the UTC fields of the Date
toISOString(t) == Fields(t)

\* new Date(str) of a string written by toISOString
ParseISOString(s) == NewDate(s.y, s.mo - 1, s.d, s.hh, s.mm)

\* new Date(str) of a date-time string without offset: local time
ParseLocal(s, tzo) == NewDate(s.y, s.mo - 1, s.d, s.hh, s.mm) - tzo

\* getFullYear ... getMinutes of a Date in the viewer's zone
LocalFields(t, tzo) == Fields(t + tzo)

\* isoToParts(iso)
isoToParts(iso, tzo) ==
    IF iso = NullISO \/ iso = BadISO THEN [date |-> EmptyDate, time |-> EmptyTime]
    ELSE CHOOSE r \in { [date |-> DateStr(f.y, f.mo, f.d), time |-> TimeStr(f.hh, f.mm)] :
                        f \in {LocalFields(ParseLocal(iso, tzo), tzo)} } : TRUE

\* partsToISO(dateStr, timeStr): null (NullISO) or the UTC ISO string
partsToISO(dateStr, timeStr, tzo) ==
    IF dateStr.s = "" \/ timeStr.s = "" THEN NullISO
    ELSE IF dateStr.s = "bad" \/ timeStr.s = "bad" THEN NullISO
    ELSE toISOString(ParseLocal([y |-> dateStr.y, mo |-> dateStr.mo, d |-> dateStr.d,
                                 hh |-> timeStr.hh, mm |-> timeStr.mm], tzo))

\* e.setDate(e.getDate() + 1)
SetDatePlusOne(t, tzo) ==
    CHOOSE r \in { NewDate(f.y, f.mo - 1, f.d + 1, f.hh, f.mm) - tzo :
                   f \in {LocalFields(t, tzo)} } : TRUE

\* mutant: the rollover test is "<" instead of "<="
ResolveEnd_Strict(start_iso, end_iso, tzo) ==
    IF ParseISOString(end_iso) < ParseISOString(start_iso)
    THEN toISOString(SetDatePlusOne(ParseISOString(start_iso), tzo))
    ELSE end_iso

\* if (new Date(end_iso) <= new Date(start_iso)) { const e = new Date(start_iso);
\*   e.setDate(e.getDate() + 1); end_iso = e.toISOString(); }
ResolveEnd(start_iso, end_iso, tzo) ==
    IF ParseISOString(end_iso) <= ParseISOString(start_iso)
    THEN toISOString(SetDatePlusOne(ParseISOString(start_iso), tzo))
    ELSE end_iso

\* mutant: the end is validated before the start
Resolve_EndFirst(date, startTime, endTime, tzo) ==
    CHOOSE r \in
        { IF end_iso = NullISO
          THEN [ok |-> FALSE, msg |-> "Please set a valid end time.",
                start_iso |-> NullISO, end_iso |-> NullISO]
          ELSE IF start_iso = NullISO
          THEN [ok |-> FALSE, msg |-> "Please set a valid date and start time.",
                start_iso |-> NullISO, end_iso |-> NullISO]
          ELSE [ok |-> TRUE, msg |-> "",
                start_iso |-> start_iso, end_iso |-> ResolveEnd(start_iso, end_iso, tzo)] :
          start_iso \in {partsToISO(date, startTime, tzo)},
          end_iso \in {partsToISO(date, endTime, tzo)} } : TRUE

\* the synchronous part of createFromDraft / createFromComposer on the fields
\* of a draft: the validation error, or the start_iso and end_iso of the body
Resolve(date, startTime, endTime, tzo) ==
    CHOOSE r \in
        { IF start_iso = NullISO
          THEN [ok |-> FALSE, msg |-> "Please set a valid date and start time.",
                start_iso |-> NullISO, end_iso |-> NullISO]
          ELSE IF end_iso = NullISO
          THEN [ok |-> FALSE, msg |-> "Please set a valid end time.",
                start_iso |-> NullISO, end_iso |-> NullISO]
          ELSE [ok |-> TRUE, msg |-> "",
                start_iso |-> start_iso, end_iso |-> ResolveEnd(start_iso, end_iso, tzo)] :
          start_iso \in {partsToISO(date, startTime, tzo)},
          end_iso \in {partsToISO(date, endTime, tzo)} } : TRUE

\* (title || "Follow-up meeting").trim()
TitleOf(title) ==
    IF title = "" THEN "Follow-up meeting" ELSE IF title = "Review " THEN "Review" ELSE title

NoErr == [msg |-> "", status |-> 0]
Err(msg, status) == [msg |-> msg, status |-> status]
NoBody == [sent |-> FALSE, title |-> "", start_iso |-> NullISO, end_iso |-> NullISO,
           date |-> EmptyDate, startTime |-> EmptyTime, endTime |-> EmptyTime]

\* mutant: the end stays the copy of the start
DefaultEnd_Start(start, tzo, n) == start.time

\* one draft of the drafts effect of CalendarPanel.jsx (default end = start + 60 minutes)
DefaultEnd(start, tzo, n) ==
    CHOOSE r \in
        { TimeStr(e.hh, e.mm) :
          e \in { LocalFields((IF p = NullISO THEN n.min - tzo ELSE ParseISOString(p)) + 60, tzo) :
                  p \in {partsToISO(start.date, start.time, tzo)} } } : TRUE

DraftOf(u, tzo, n) ==
    CHOOSE r \in
        { [title |-> IF u.title = "" THEN "Follow-up meeting" ELSE u.title,
           date |-> start.date, start_time |-> start.time,
           end_time |-> IF u.end_iso # NullISO THEN isoToParts(u.end_iso, tzo).time
                        ELSE DefaultEnd(start, tzo, n)] :
          start \in {isoToParts(u.start_iso, tzo)} } : TRUE

MaxDraftsShown == 10

\* the drafts effect: upcoming.slice(0, 10).map(...)
DraftsFrom(up, tzo, n) ==
    LET shown == Slice(up, MaxDraftsShown)
    IN  [i \in 1..Len(shown) |-> DraftOf(shown[i], tzo, n)]

\* events of a list response: items without a parseable start are dropped,
\* the rest sorted by start
RECURSIVE InsertByStart(_, _)
InsertByStart(e, sorted) ==
    IF sorted = <<>> THEN <<e>>
    ELSE IF e.start < Head(sorted).start THEN <<e>> \o sorted
    ELSE <<Head(sorted)>> \o InsertByStart(e, Tail(sorted))

RECURSIVE NormFrom(_, _)
NormFrom(items, k) ==
    IF k = 0 THEN <<>>
    ELSE IF items[k].start < 0 THEN NormFrom(items, k - 1)
    ELSE InsertByStart(items[k], NormFrom(items, k - 1))

Norm(items) == NormFrom(items, Len(items))

(***************************************************************************)
(* Inputs of the miner                                                     *)
(***************************************************************************)
\* a match: the capture groups of the recognizer (kind) that produced it.
\* The captures are kept as the integers parseInt gives: mo and d of any one
\* or two digits, a written year of two digits or 20xx (the forms the
\* recognizers of both files accept), the time as hour, minutes (hasMin: the
\* ":mm" part is written) and am/pm.
Match(kind, hasYear, y, mo, d, hasTime, h, mi, ap) ==
    [kind |-> kind, hasYear |-> hasYear, y |-> y, mo |-> mo, d |-> d,
     hasTime |-> hasTime, h |-> h, hasMin |-> kind = "iso" /\ hasTime,
     mi |-> mi, ap |-> ap]

Iso(y, mo, d) == Match("iso", TRUE, y, mo, d, FALSE, 0, 0, "")
IsoT(y, mo, d, h, mi) == Match("iso", TRUE, y, mo, d, TRUE, h, mi, "")
Slash(mo, d) == Match("slash", FALSE, 0, mo, d, FALSE, 0, 0, "")
SlashY(mo, d, y) == Match("slash", TRUE, y, mo, d, FALSE, 0, 0, "")
SlashT(mo, d, h, ap) == Match("slash", FALSE, 0, mo, d, TRUE, h, 0, ap)
Month(mo, d) == Match("month", FALSE, 0, mo, d, FALSE, 0, 0, "")
MonthY(mo, d, y) == Match("month", TRUE, y, mo, d, FALSE, 0, 0, "")
MonthT(mo, d, h, ap) == Match("month", FALSE, 0, mo, d, TRUE, h, 0, ap)

\* the matches short texts are made of
Alphabet ==
    { Iso(2025, 12, 1),            \* 2025-12-01
      IsoT(2025, 11, 10, 9, 0),    \* 2025-11-10 09:00
      Iso(2026, 2, 30),            \* 2026-02-30
      IsoT(2026, 3, 5, 14, 0),     \* 2026-03-05T14:00
      Slash(12, 1),                \* 12/1
      SlashY(3, 2, 26),            \* 3/2/26
      SlashT(11, 10, 9, ""),       \* 11/10 at 9
      MonthY(12, 1, 2025),         \* Dec 1, 2025
      Month(3, 5),                 \* Mar 5
      MonthY(3, 5, 2025),          \* March 5th, 2025
      MonthT(11, 10, 9, ""),       \* Nov 10 at 9
      MonthT(3, 5, 2, "pm"),       \* Mar 5 at 2pm
      Month(1, 0) }                \* Jan 0

ShortTexts == UNION { [1..k -> Alphabet] : k \in 0..MaxLen }

\* texts with many distinct dates in January 2026, the three notations
\* alternating; asc: the days rise (else fall) from left to right; dup: each
\* day is written twice
LongMatch(i, day) ==
    IF i % 3 = 0 THEN Iso(2026, 1, day)
    ELSE IF i % 3 = 1 THEN SlashY(1, day, 26)
    ELSE MonthY(1, day, 2026)

LongText(len, asc, dup) ==
    [i \in 1..len |->
        LET j == IF asc THEN i ELSE len + 1 - i
        IN  LongMatch(i, IF dup THEN (j + 1) \div 2 ELSE j)]

LongTexts ==
    { LongText(len, asc, dup) :
        len \in (CapDashboard + 1)..MaxLong, asc \in BOOLEAN, dup \in BOOLEAN }

\* texts of one slash or month-name date with a time expression: 12/20/26 or
\* Dec 20, 2026 followed by "at h", "at h:mm", with or without am / pm
TimeMatch(kind, h, hasMin, mi, ap) ==
    [Match(kind, TRUE, IF kind = "slash" THEN 26 ELSE 2026, 12, 20, TRUE, h, mi, ap)
        EXCEPT !.hasMin = hasMin]

Hours == 0..23
MinuteParts == { [hasMin |-> FALSE, mi |-> 0], [hasMin |-> TRUE, mi |-> 0],
                 [hasMin |-> TRUE, mi |-> 30] }
Suffixes == {"", "am", "pm"}

TimeTexts ==
    { <<TimeMatch(kind, h, mp.hasMin, mp.mi, ap)>> :
        kind \in {"slash", "month"}, h \in Hours, mp \in MinuteParts, ap \in Suffixes }

\* texts of one fragment that has the shape of a recognizer and writes no
\* real date or time: 2026-03-05 25:00, 2026-03-05 14:75, 13/1/26,
\* Dec 20, 2026 at 25
OddTexts ==
    { <<IsoT(2026, 3, 5, 25, 0)>>, <<IsoT(2026, 3, 5, 14, 75)>>, <<SlashY(13, 1, 26)>>,
      <<TimeMatch("month", 25, FALSE, 0, "")>> }

Texts == ShortTexts \cup LongTexts \cup TimeTexts \cup OddTexts

\* new Date() at the scan: 2025-11-10T09:00 or 2025-12-31T12:00, exactly
\* (frac = 0) or some milliseconds later (frac = 1), or within the last
\* minute of 2025
Nows ==
    { [min |-> NewDate(2025, 10, 10, 9, 0), frac |-> f] : f \in {0, 1} }
    \cup { [min |-> NewDate(2025, 11, 31, 12, 0), frac |-> f] : f \in {0, 1} }
    \cup { [min |-> NewDate(2025, 11, 31, 23, 59), frac |-> 1] }

\* beginnings of the text: no year at all, "2025 ...", and
\* "2025 ... Date: November 9, 2026"
NoHeader == <<>>
Headers ==
    { NoHeader,
      <<HeadToken("num", 2025, 0, 0)>>,
      <<HeadToken("num", 2025, 0, 0), HeadToken("date", 2026, 40, 0)>> }

\* the values extractUpcomingFromText can be called with: a non-empty string,
\* the empty string, null, undefined, a number other than 0, an object
ArgKinds == {"string", "empty", "null", "undefined", "number", "object"}

NotRun == [ran |-> FALSE, threw |-> FALSE, out |-> <<>>, dedup |-> <<>>, result |-> <<>>]

(***************************************************************************)
(* Inputs of the calendar panels                                           *)
(***************************************************************************)
TzOffsets == {-300, 330}

\* items of the upcoming list: start_iso / end_iso are local date-time strings
Item(title, start_iso, end_iso) == [title |-> title, start_iso |-> start_iso, end_iso |-> end_iso]
ISOStr(y, mo, d, hh, mm) == [y |-> y, mo |-> mo, d |-> d, hh |-> hh, mm |-> mm]

Upcomings ==
    { <<>>,
      <<Item("", ISOStr(2025, 12, 1, 22, 0), NullISO)>>,
      <<Item("Review ", ISOStr(2025, 12, 1, 23, 30), NullISO)>>,
      <<Item("", ISOStr(2025, 12, 1, 22, 0), ISOStr(2025, 12, 1, 22, 0))>>,
      <<Item("", BadISO, NullISO)>> }

\* no request in flight
NoRequests == [events |-> 0, create |-> 0, chained |-> 0]

\* what the user can type into the date and time inputs
DateInputs == { EmptyDate, DateStr(2025, 12, 1) }
TimeInputs == { EmptyTime, BadTime, TimeStr(1, 0), TimeStr(22, 0) }

\* answers of the calendar backend: status 0 is a failed request (fetch throws)
Statuses == {0, 200, 401, 500}
Answer(status, bodyText, items) == [status |-> status, text |-> bodyText, items |-> items]
ListAnswers ==
    { Answer(0, "", <<>>), Answer(500, "", <<>>),
      Answer(401, "", <<>>), Answer(401, "calendar_not_connected", <<>>),
      Answer(200, "", <<>>),
      Answer(200, "", <<[start |-> 20], [start |-> -1], [start |-> 10]>>) }

NotConnectedMsg == "Google Calendar not connected. Click Connect to link your account."

\* the calendar panels before they are mounted
CalIdle ==
    /\ tz = 0
    /\ panel = "none"
    /\ upcoming = <<>>
    /\ drafts = <<>>
    /\ composer = [title |-> "Follow-up meeting", date |-> EmptyDate,
                   startTime |-> EmptyTime, endTime |-> EmptyTime]
    /\ busy = FALSE
    /\ err = NoErr
    /\ events = <<>>
    /\ connected = FALSE
    /\ inflight = NoRequests
    /\ lastBody = NoBody
    /\ userChanges = 0

\* no summary loaded
NoNormalized ==
    [status |-> "", schedule_suggestions |-> [kind |-> "absent", items |-> <<>>],
     bundle |-> [arg |-> "empty", text |-> <<>>]]

\* Dashboard.js without meetings, nothing in progress
DashIdle ==
    /\ meetings = {}
    /\ selectedId = 0
    /\ deletingId = 0
    /\ requests = {}
    /\ owner = [summary |-> 0, transcripts |-> 0]
    /\ clicks = 0

\* the page that loads the summary, not mounted
LoadIdle ==
    /\ DashIdle
    /\ normalized = NoNormalized
    /\ page = [component |-> "none", handler |-> "none", attempts |-> 0, summary |-> "empty",
               loadingUpcoming |-> FALSE, meetings |-> FALSE, outcome |-> "none"]

\* the miner, not run
MinerIdle ==
    /\ arg = "string"
    /\ text = <<>>
    /\ header = NoHeader
    /\ now = [min |-> NewDate(2025, 10, 10, 9, 0), frac |-> 0]
    /\ dash = NotRun
    /\ upl = NotRun

(***************************************************************************)
(* Specification of the miner                                              *)
(***************************************************************************)
InitMiner ==
    /\ arg \in ArgKinds
    /\ text \in IF arg = "string" THEN Texts ELSE {<<>>}
    /\ header \in IF arg = "string" THEN Headers ELSE {NoHeader}
    /\ now \in Nows
    /\ dash = NotRun
    /\ upl = NotRun
    /\ CalIdle
    /\ LoadIdle

\* Dashboard.js calls extractUpcomingFromText(text)
MineDashboard ==
    /\ \E t \in Turns(text, now) :
          dash' = Call(arg, extractUpcomingFromText_Dashboard(text, Clock(now, t)))
    /\ UNCHANGED <<arg, text, header, now, upl>>
    /\ UNCHANGED calVars
    /\ UNCHANGED loadVars

\* UploadsPage.js calls extractUpcomingFromText(text)
MineUploads ==
    /\ \E t \in Turns(text, now) :
          upl' = Call(arg, extractUpcomingFromText_Uploads(text, header, Clock(now, t)))
    /\ UNCHANGED <<arg, text, header, now, dash>>
    /\ UNCHANGED calVars
    /\ UNCHANGED loadVars

NextMiner == MineDashboard \/ MineUploads

SpecMiner == InitMiner /\ [][NextMiner]_vars

(***************************************************************************)
(* Specification of the anchor year of UploadsPage.js: one text with a     *)
(* year-less slash date and a year-less month-name date, behind beginnings *)
(* of every shape around the end of text.slice(0, 600).                    *)
(***************************************************************************)
\* number of digit runs in the beginning of the text
MaxTokens == 2

\* years written in the beginning: 20xx and one that does not start with 20
HeadYears == {2026, 2027, 2100}

\* offsets of the four digits: well inside head, its last four characters
\* (596), cut by the slice (597), beyond it (620)
HeadOffsets == {20, 300, 570, 596, 597, 620}

HeadTokens ==
    { HeadToken(kind, y, at, more) :
        kind \in {"date", "num"}, y \in HeadYears, at \in HeadOffsets, more \in {0, 1} }

\* the runs do not overlap; "Date: Nov 9, " takes 13 characters before the
\* digits of a header
WellSpaced(hd) ==
    /\ \A i \in 1..Len(hd) : hd[i].kind = "date" => hd[i].at >= 13
    /\ \A i \in 1..(Len(hd) - 1) :
          hd[i + 1].at >= hd[i].at + 4 + hd[i].more + (IF hd[i + 1].kind = "date" THEN 14 ELSE 1)

Heads == UNION { { hd \in [1..k -> HeadTokens] : WellSpaced(hd) } : k \in 0..MaxTokens }

\* "Follow up 12/1" and "Follow up 12/1, demo on Dec 20"
AnchorTexts == { <<Slash(12, 1)>>, <<Slash(12, 1), Month(12, 20)>> }

InitAnchor ==
    /\ arg = "string"
    /\ text \in AnchorTexts
    /\ header \in Heads
    /\ now = [min |-> NewDate(2025, 10, 10, 9, 0), frac |-> 0]
    /\ dash = NotRun
    /\ upl = NotRun
    /\ CalIdle
    /\ LoadIdle

NextAnchor == MineUploads

SpecAnchor == InitAnchor /\ [][NextAnchor]_vars

(***************************************************************************)
(* Specification of the calendar panels                                    *)
(***************************************************************************)
\* inflight counts the requests in flight by the handler awaiting them:
\* "events" a fetchEvents() called on its own, "create" the POST of a create
\* handler, "chained" the fetchEvents() awaited by a create handler
Sending(reqs, kind) == [reqs EXCEPT ![kind] = @ + 1]
Answered(reqs, kind) == [reqs EXCEPT ![kind] = @ - 1]

\* the panel after its first render and its mount effects: the drafts built
\* from upcoming, fetchEvents() called
InitCal ==
    /\ MinerIdle
    /\ tz \in TzOffsets
    /\ panel \in {"drafts", "composer"}
    /\ upcoming \in Upcomings
    /\ drafts = IF panel = "drafts" THEN DraftsFrom(upcoming, tz, now) ELSE <<>>
    /\ composer = [title |-> "Follow-up meeting", date |-> EmptyDate,
                   startTime |-> EmptyTime, endTime |-> EmptyTime]
    /\ busy = TRUE
    /\ err = NoErr
    /\ events = <<>>
    /\ connected = FALSE
    /\ inflight = Sending(NoRequests, "events")
    /\ lastBody = NoBody
    /\ userChanges = 0
    /\ LoadIdle

\* fetchEvents() up to its await
fetchEvents ==
    /\ busy' = TRUE
    /\ err' = NoErr
    /\ inflight' = Sending(inflight, "events")

\* click on "Refresh Events"
RefreshClick ==
    /\ ~busy
    /\ fetchEvents
    /\ UNCHANGED <<tz, panel, upcoming, drafts, composer, events, connected, lastBody, userChanges>>
    /\ UNCHANGED minerVars
    /\ UNCHANGED loadVars

\* the userId prop changes: the effect calls fetchEvents()
UserIdChange ==
    /\ userChanges < MaxUserChanges
    /\ userChanges' = userChanges + 1
    /\ fetchEvents
    /\ UNCHANGED <<tz, panel, upcoming, drafts, composer, events, connected, lastBody>>
    /\ UNCHANGED minerVars
    /\ UNCHANGED loadVars

\* the answer to a list request arrives: the rest of fetchEvents, and, when
\* chained, the finally of the create handler awaiting it
EventsResponse(kind, ans) ==
    /\ kind \in {"events", "chained"}
    /\ inflight[kind] > 0
    /\ inflight' = Answered(inflight, kind)
    /\ IF ans.status = 0
       THEN /\ err' = Err("Failed to fetch calendar", 0)
            /\ events' = <<>>
            /\ connected' = FALSE
       ELSE IF ans.status # 200
       THEN /\ connected' = FALSE
            /\ events' = <<>>
            /\ err' = IF ans.status \in {400, 401, 403, 409}
                      THEN Err(IF ans.text = "" THEN NotConnectedMsg ELSE ans.text, 0)
                      ELSE Err("Calendar error", ans.status)
       ELSE /\ connected' = (panel = "composer")
            /\ events' = Norm(ans.items)
            /\ UNCHANGED err
    /\ busy' = FALSE
    /\ UNCHANGED <<tz, panel, upcoming, drafts, composer, lastBody, userChanges>>
    /\ UNCHANGED minerVars
    /\ UNCHANGED loadVars

\* a field of a draft is edited (CalendarPanel.jsx)
EditDraft(i, field, value) ==
    /\ panel = "drafts"
    /\ i \in 1..Len(drafts)
    /\ drafts' = [drafts EXCEPT ![i] = [@ EXCEPT ![field] = value]]
    /\ UNCHANGED <<tz, panel, upcoming, composer, busy, err, events, connected, inflight,
                   lastBody, userChanges>>
    /\ UNCHANGED minerVars
    /\ UNCHANGED loadVars

\* a field of the composer is edited (part_009)
EditComposer(field, value) ==
    /\ panel = "composer"
    /\ composer' = [composer EXCEPT ![field] = value]
    /\ UNCHANGED <<tz, panel, upcoming, drafts, busy, err, events, connected, inflight,
                   lastBody, userChanges>>
    /\ UNCHANGED minerVars
    /\ UNCHANGED loadVars

\* prefill(u) of the composer (part_009)
prefill(u) ==
    /\ \E d \in {ParseLocal(u.start_iso, tz)} :
       \E utc \in {toISOString(d)}, loc \in {LocalFields(d, tz)},
          e \in {LocalFields(ParseLocal(u.end_iso, tz), tz)} :
          LET okStart == u.start_iso # NullISO /\ u.start_iso # BadISO
              okEnd == u.end_iso # NullISO /\ u.end_iso # BadISO
              dStr == IF okStart THEN DateStr(utc.y, utc.mo, utc.d) ELSE composer.date
              sStr == IF okStart THEN TimeStr(loc.hh, loc.mm) ELSE composer.startTime
              eStr == IF okEnd THEN TimeStr(e.hh, e.mm) ELSE composer.endTime
          IN  composer' = [title |-> IF u.title = "" THEN "Follow-up meeting" ELSE u.title,
                           date |-> dStr, startTime |-> sStr, endTime |-> eStr]

\* prev.filter((_, idx) => idx !== i)
RemoveAt(seq, i) == [k \in 1..(Len(seq) - 1) |-> IF k < i THEN seq[k] ELSE seq[k + 1]]

\* click on the card of upcoming item i (DashboardPage of UploadsPage.js): the
\* composer is prefilled and the item leaves the list
UpcomingClick(i) ==
    /\ panel = "composer"
    /\ i \in 1..Len(upcoming)
    /\ prefill(upcoming[i])
    /\ upcoming' = RemoveAt(upcoming, i)
    /\ UNCHANGED <<tz, panel, drafts, busy, err, events, connected, inflight,
                   lastBody, userChanges>>
    /\ UNCHANGED minerVars
    /\ UNCHANGED loadVars

\* mutant: setBusy(true) and setErr("") come before the validation
Submit_BusyFirst(title, date, startTime, endTime) ==
    \E r \in {Resolve(date, startTime, endTime, tz)} :
        IF ~r.ok
        THEN /\ err' = Err(r.msg, 0)
             /\ busy' = TRUE
             /\ UNCHANGED <<inflight, lastBody>>
        ELSE /\ busy' = TRUE
             /\ err' = NoErr
             /\ inflight' = Sending(inflight, "create")
             /\ lastBody' = [sent |-> TRUE, title |-> TitleOf(title),
                             start_iso |-> r.start_iso, end_iso |-> r.end_iso,
                             date |-> date, startTime |-> startTime, endTime |-> endTime]

\* the body of createFromDraft / createFromComposer up to the await of the POST
Submit(title, date, startTime, endTime) ==
    \E r \in {Resolve(date, startTime, endTime, tz)} :
        IF ~r.ok
        THEN /\ err' = Err(r.msg, 0)
             /\ UNCHANGED <<busy, inflight, lastBody>>
        ELSE /\ busy' = TRUE
             /\ err' = NoErr
             /\ inflight' = Sending(inflight, "create")
             /\ lastBody' = [sent |-> TRUE, title |-> TitleOf(title),
                             start_iso |-> r.start_iso, end_iso |-> r.end_iso,
                             date |-> date, startTime |-> startTime, endTime |-> endTime]

\* click on "Add to Calendar" of draft i: the button is enabled, createFromDraft(i)
createFromDraft(i) ==
    /\ panel = "drafts"
    /\ i \in 1..Len(drafts)
    /\ ~(busy \/ drafts[i].date.s = "" \/ drafts[i].start_time.s = "" \/ drafts[i].end_time.s = "")
    /\ Submit(drafts[i].title, drafts[i].date, drafts[i].start_time, drafts[i].end_time)
    /\ UNCHANGED <<tz, panel, upcoming, drafts, composer, events, connected, userChanges>>
    /\ UNCHANGED minerVars
    /\ UNCHANGED loadVars

\* click on "Add to Google Calendar": the button is enabled, createFromComposer()
createFromComposer ==
    /\ panel = "composer"
    /\ ~(busy \/ composer.date.s = "" \/ composer.startTime.s = "" \/ composer.endTime.s = "")
    /\ Submit(composer.title, composer.date, composer.startTime, composer.endTime)
    /\ UNCHANGED <<tz, panel, upcoming, drafts, composer, events, connected, userChanges>>
    /\ UNCHANGED minerVars
    /\ UNCHANGED loadVars

\* the answer to a create request arrives: the rest of the create handler
CreateResponse(status) ==
    /\ inflight.create > 0
    /\ IF status = 0
       THEN /\ err' = Err("Create event error", 0)
            /\ busy' = FALSE
            /\ inflight' = Answered(inflight, "create")
       ELSE IF status # 200
       THEN /\ err' = Err("Create event failed", status)
            /\ busy' = FALSE
            /\ inflight' = Answered(inflight, "create")
       ELSE /\ busy' = TRUE
            /\ err' = NoErr
            /\ inflight' = Sending(Answered(inflight, "create"), "chained")
    /\ lastBody' = IF inflight.create = 1 THEN NoBody ELSE lastBody
    /\ UNCHANGED <<tz, panel, upcoming, drafts, composer, events, connected, userChanges>>
    /\ UNCHANGED minerVars
    /\ UNCHANGED loadVars

NextCal ==
    \/ RefreshClick
    \/ UserIdChange
    \/ \E kind \in {"events", "chained"}, ans \in ListAnswers : EventsResponse(kind, ans)
    \/ \E i \in 1..Len(drafts) :
          \/ \E v \in DateInputs : EditDraft(i, "date", v)
          \/ \E f \in {"start_time", "end_time"}, v \in TimeInputs : EditDraft(i, f, v)
    \/ \E v \in DateInputs : EditComposer("date", v)
    \/ \E f \in {"startTime", "endTime"}, v \in TimeInputs : EditComposer(f, v)
    \/ \E i \in 1..Len(upcoming) : UpcomingClick(i)
    \/ \E i \in 1..Len(drafts) : createFromDraft(i)
    \/ createFromComposer
    \/ \E st \in Statuses : CreateResponse(st)

SpecCal == InitCal /\ [][NextCal]_vars

(***************************************************************************)
(* Specification of the drafts effect of CalendarPanel.jsx: the panel is   *)
(* mounted in Dashboard.js with an empty upcoming list, the page then      *)
(* hands it new lists.                                                     *)
(***************************************************************************)
DraftItems ==
    { Item("", ISOStr(2025, 12, 1, 22, 0), NullISO),
      Item("Review ", ISOStr(2025, 12, 1, 23, 30), NullISO),
      Item("", ISOStr(2025, 12, 1, 22, 0), ISOStr(2025, 12, 1, 23, 15)),
      Item("", ISOStr(2025, 12, 1, 22, 0), BadISO),
      Item("", BadISO, NullISO) }

\* a list of len items without an end, on successive days
ManyItems(len) == [i \in 1..len |-> Item("", ISOStr(2025, 12, i, 9 + i, 30), NullISO)]

DraftUpcomings ==
    UNION { [1..k -> DraftItems] : k \in 0..2 } \cup { ManyItems(MaxUpcoming) }

InitDrafts ==
    /\ arg = "string"
    /\ text = <<>>
    /\ header = NoHeader
    /\ now \in Nows
    /\ dash = NotRun
    /\ upl = NotRun
    /\ LoadIdle
    /\ tz \in TzOffsets
    /\ panel = "drafts"
    /\ upcoming = <<>>
    /\ drafts = <<>>
    /\ composer = [title |-> "Follow-up meeting", date |-> EmptyDate,
                   startTime |-> EmptyTime, endTime |-> EmptyTime]
    /\ busy = TRUE
    /\ err = NoErr
    /\ events = <<>>
    /\ connected = FALSE
    /\ inflight = Sending(NoRequests, "events")
    /\ lastBody = NoBody
    /\ userChanges = 0

\* the upcoming prop changes: the drafts effect runs
UpcomingChange(up) ==
    /\ panel = "drafts"
    /\ up # upcoming
    /\ upcoming' = up
    /\ drafts' = DraftsFrom(up, tz, now)
    /\ UNCHANGED <<tz, panel, composer, busy, err, events, connected, inflight, lastBody,
                   userChanges>>
    /\ UNCHANGED minerVars
    /\ UNCHANGED loadVars

NextDrafts ==
    \/ \E up \in DraftUpcomings : UpcomingChange(up)
    \/ RefreshClick
    \/ \E ans \in ListAnswers : EventsResponse("events", ans)

SpecDrafts == InitDrafts /\ [][NextDrafts]_vars

(***************************************************************************)
(* Specification of the create handlers as functions of the draft: the     *)
(* panel is mounted and idle, the fields hold any value, and the handler   *)
(* is called whatever the state of its button.                             *)
(***************************************************************************)
SubmitDates == { EmptyDate, BadDate, DateStr(2025, 12, 1) }
SubmitEvents == { <<>>, <<[start |-> 10]>> }

InitSubmit ==
    /\ MinerIdle
    /\ LoadIdle
    /\ tz \in TzOffsets
    /\ panel \in {"drafts", "composer"}
    /\ upcoming = <<>>
    /\ \E dt \in SubmitDates, st \in TimeInputs, et \in TimeInputs :
          /\ drafts = IF panel = "drafts"
                      THEN <<[title |-> "Follow-up meeting", date |-> dt, start_time |-> st,
                              end_time |-> et]>>
                      ELSE <<>>
          /\ composer = IF panel = "composer"
                        THEN [title |-> "Follow-up meeting", date |-> dt, startTime |-> st,
                              endTime |-> et]
                        ELSE [title |-> "Follow-up meeting", date |-> EmptyDate,
                              startTime |-> EmptyTime, endTime |-> EmptyTime]
    /\ busy = FALSE
    /\ err = NoErr
    /\ events \in SubmitEvents
    /\ connected = FALSE
    /\ inflight = NoRequests
    /\ lastBody = NoBody
    /\ userChanges = 0

\* createFromDraft(i) is called
CallCreateFromDraft(i) ==
    /\ panel = "drafts"
    /\ i \in 1..Len(drafts)
    /\ inflight = NoRequests
    /\ Submit(drafts[i].title, drafts[i].date, drafts[i].start_time, drafts[i].end_time)
    /\ UNCHANGED <<tz, panel, upcoming, drafts, composer, events, connected, userChanges>>
    /\ UNCHANGED minerVars
    /\ UNCHANGED loadVars

\* createFromComposer() is called
CallCreateFromComposer ==
    /\ panel = "composer"
    /\ inflight = NoRequests
    /\ Submit(composer.title, composer.date, composer.startTime, composer.endTime)
    /\ UNCHANGED <<tz, panel, upcoming, drafts, composer, events, connected, userChanges>>
    /\ UNCHANGED minerVars
    /\ UNCHANGED loadVars

NextSubmit ==
    \/ \E i \in 1..Len(drafts) : CallCreateFromDraft(i)
    \/ CallCreateFromComposer
    \/ \E st \in Statuses : CreateResponse(st)
    \/ \E ans \in ListAnswers : EventsResponse("chained", ans)

SpecSubmit == InitSubmit /\ [][NextSubmit]_vars

(***************************************************************************)
(* Specification of the summary loading of the two pages: fetchSummary and *)
(* startSummarize of Dashboard.js, fetchUpcomingFromLatest of the          *)
(* DashboardPage of UploadsPage.js.  One handler runs at a time; dash and  *)
(* upl record the runs of the miner made by the handler in progress.       *)
(***************************************************************************)
\* mutant: one more attempt
MaxAttempts_More == 30 + 1

\* maxAttempts of startSummarize
MaxAttempts == 30

\* an element of schedule_suggestions; "" is a missing or empty field
Sugg(title, start_iso, end_iso, raw_quote) ==
    [title |-> title, start_iso |-> start_iso, end_iso |-> end_iso, description |-> "",
     raw_quote |-> raw_quote]

\* a list of len suggestions: the first is in the past, the starts fall from
\* left to right, neighbours share a start, every third has an end
SuggMany(len) ==
    [i \in 1..len |->
        Sugg(IF i % 2 = 0 THEN "" ELSE "Sync",
             ISOStr(IF i = 1 THEN 2024 ELSE 2026, 1, 20 - (i \div 2), 10, 0),
             IF i % 3 = 0 THEN ISOStr(2026, 1, 20 - (i \div 2), 11, 0) ELSE NullISO,
             "quote")]

\* what normalized.schedule_suggestions can be: missing, not an array, an array
SuggAbsent == [kind |-> "absent", items |-> <<>>]
SuggOther == [kind |-> "other", items |-> <<>>]
SuggArray(items) == [kind |-> "array", items |-> items]
SuggOne == <<Sugg("", ISOStr(2025, 12, 1, 10, 0), NullISO, "")>>

\* summary_text, decisions and action_items joined: the empty string, a
\* string without a date, strings with dates
BundleEmpty == [arg |-> "empty", text |-> <<>>]
BundlePlain == [arg |-> "string", text |-> <<>>]
BundleIso == [arg |-> "string", text |-> <<Iso(2025, 12, 1)>>]
BundleTwo == [arg |-> "string", text |-> <<Slash(12, 1), Iso(2026, 3, 5)>>]

Normalized(st, sg, b) == [status |-> st, schedule_suggestions |-> sg, bundle |-> b]

\* the payloads of the backend
Normalizeds ==
    { Normalized("ready", SuggArray(SuggMany(MaxSugg)), BundleTwo),
      Normalized("ready", SuggArray(SuggOne), BundleEmpty),
      Normalized("ready", SuggAbsent, BundleTwo),
      Normalized("ready", SuggArray(<<>>), BundleIso),
      Normalized("ready", SuggOther, BundlePlain),
      Normalized("", SuggAbsent, BundleEmpty),
      Normalized("", SuggArray(SuggOne), BundleIso),
      Normalized("processing", SuggAbsent, BundleEmpty),
      Normalized("processing", SuggArray(SuggMany(MaxSugg)), BundleIso),
      Normalized("error", SuggAbsent, BundleEmpty) }

\* answers to GET /summary: http 0 is a failed request (fetch throws)
SummaryAnswers ==
    { [http |-> 0, normalized |-> NoNormalized], [http |-> 500, normalized |-> NoNormalized] }
    \cup { [http |-> 200, normalized |-> n] : n \in Normalizeds }

\* the object a suggestion is mapped to
MapSuggestion(it) ==
    [title |-> IF it.title = "" THEN "Follow-up meeting" ELSE it.title,
     start_iso |-> it.start_iso, end_iso |-> it.end_iso,
     description |-> IF it.description # "" THEN it.description ELSE it.raw_quote,
     source |-> it.raw_quote]

MapSuggestions(items) == [i \in 1..Len(items) |-> MapSuggestion(items[i])]

\* mutant: the suggestions of the backend are never used
UseSuggestions_Never(sg) == FALSE

\* Array.isArray(s.schedule_suggestions) && s.schedule_suggestions.length > 0
UseSuggestions(sg) == sg.kind = "array" /\ Len(sg.items) > 0

\* the branch that fills upcoming from a summary: the suggestions of the
\* backend, else extractUpcomingFromText(bundle) of the page's own file
FillUpcoming(n) ==
    /\ normalized' = n
    /\ IF UseSuggestions(n.schedule_suggestions)
       THEN /\ upcoming' = MapSuggestions(n.schedule_suggestions.items)
            /\ UNCHANGED <<arg, text, header, dash, upl>>
       ELSE /\ arg' = n.bundle.arg
            /\ text' = n.bundle.text
            /\ header' = NoHeader
            /\ \E t \in Turns(n.bundle.text, now) :
                  IF page.component = "Dashboard"
                  THEN /\ dash' = Call(n.bundle.arg,
                                       extractUpcomingFromText_Dashboard(n.bundle.text,
                                                                         Clock(now, t)))
                       /\ upcoming' = dash'.result
                       /\ UNCHANGED upl
                  ELSE /\ upl' = Call(n.bundle.arg,
                                      extractUpcomingFromText_Uploads(n.bundle.text,
                                                                      NoHeader,
                                                                      Clock(now, t)))
                       /\ upcoming' = upl'.result
                       /\ UNCHANGED dash

\* upcoming is emptied, the miner is not called
ClearUpcoming ==
    /\ upcoming' = <<>>
    /\ UNCHANGED <<arg, text, header, dash, upl, normalized>>

\* a handler starts: no run of the miner yet
Starting == dash' = NotRun /\ upl' = NotRun

\* new Date() at the scans of the bundle
LoadNows ==
    { [min |-> NewDate(2025, 10, 10, 9, 0), frac |-> 0],
      [min |-> NewDate(2025, 11, 31, 23, 59), frac |-> 1] }

\* the pages after their first render
InitLoad ==
    /\ arg = "string"
    /\ text = <<>>
    /\ header = NoHeader
    /\ now \in LoadNows
    /\ dash = NotRun
    /\ upl = NotRun
    /\ CalIdle
    /\ DashIdle
    /\ normalized = NoNormalized
    /\ \E c \in {"Dashboard", "DashboardPage"}, mt \in BOOLEAN :
          page = [component |-> c, handler |-> "none", attempts |-> 0, summary |-> "empty",
                  loadingUpcoming |-> FALSE, meetings |-> (c = "Dashboard" \/ mt),
                  outcome |-> "none"]

\* Dashboard.js: a meeting is selected, the effect calls fetchSummary(mid)
fetchSummary ==
    /\ page.component = "Dashboard" /\ page.handler = "none"
    /\ page' = [page EXCEPT !.handler = "fetchSummary", !.outcome = "none"]
    /\ Starting
    /\ UNCHANGED <<arg, text, header, now, upcoming, normalized>>
    /\ UNCHANGED calRest
    /\ UNCHANGED dashVars

\* the answer to the request of fetchSummary arrives
SummaryResponse(ans) ==
    /\ page.handler = "fetchSummary"
    /\ IF ans.http # 200
       THEN /\ ClearUpcoming
            /\ page' = [page EXCEPT !.handler = "none", !.summary = "empty",
                                     !.outcome = "failed"]
       ELSE /\ FillUpcoming(ans.normalized)
            /\ page' = [page EXCEPT
                          !.handler = "none", !.outcome = "loaded",
                          !.summary = IF ans.normalized.status # "" THEN ans.normalized.status
                                      ELSE IF ans.normalized.bundle.arg = "string" THEN "ready"
                                      ELSE "empty"]
    /\ UNCHANGED now
    /\ UNCHANGED calRest
    /\ UNCHANGED dashVars

\* Dashboard.js: click on Summarize, startSummarize(mid) up to the await of the POST
startSummarize ==
    /\ page.component = "Dashboard" /\ page.handler = "none"
    /\ page' = [page EXCEPT !.handler = "kick", !.summary = "processing", !.outcome = "none",
                             !.attempts = 0]
    /\ Starting
    /\ UNCHANGED <<arg, text, header, now, upcoming, normalized>>
    /\ UNCHANGED calRest
    /\ UNCHANGED dashVars

\* the answer to POST /summarize arrives: http 0 rejects the handler
KickResponse(http) ==
    /\ page.handler = "kick"
    /\ IF http = 0
       THEN /\ page' = [page EXCEPT !.handler = "none", !.outcome = "failed"]
            /\ UNCHANGED <<arg, text, header, dash, upl, upcoming, normalized>>
       ELSE IF http # 200
       THEN /\ ClearUpcoming
            /\ page' = [page EXCEPT !.handler = "none", !.summary = "error",
                                     !.outcome = "failed"]
       ELSE /\ page' = [page EXCEPT !.handler = "poll"]
            /\ UNCHANGED <<arg, text, header, dash, upl, upcoming, normalized>>
    /\ UNCHANGED now
    /\ UNCHANGED calRest
    /\ UNCHANGED dashVars

\* the answer to a poll of startSummarize arrives; after an answer that is
\* neither ready nor error the loop sleeps and polls again, up to maxAttempts
PollResponse(ans) ==
    /\ page.handler = "poll"
    /\ IF ans.http = 0
       THEN /\ page' = [page EXCEPT !.handler = "none", !.outcome = "failed"]
            /\ UNCHANGED <<arg, text, header, dash, upl, upcoming, normalized>>
       ELSE IF ans.http = 200 /\ ans.normalized.status = "ready"
       THEN /\ FillUpcoming(ans.normalized)
            /\ page' = [page EXCEPT !.handler = "none", !.summary = "ready",
                                     !.outcome = "loaded"]
       ELSE IF ans.http = 200 /\ ans.normalized.status = "error"
       THEN /\ ClearUpcoming
            /\ page' = [page EXCEPT !.handler = "none", !.summary = "error",
                                     !.outcome = "failed"]
       ELSE IF page.attempts + 1 < MaxAttempts
       THEN /\ page' = [page EXCEPT !.attempts = @ + 1]
            /\ UNCHANGED <<arg, text, header, dash, upl, upcoming, normalized>>
       ELSE /\ ClearUpcoming
            /\ page' = [page EXCEPT !.handler = "none", !.summary = "error",
                                     !.attempts = @ + 1, !.outcome = "failed"]
    /\ UNCHANGED now
    /\ UNCHANGED calRest
    /\ UNCHANGED dashVars

\* DashboardPage: the meetings effect or the "Refresh from Summary" button
\* calls fetchUpcomingFromLatest()
fetchUpcomingFromLatest ==
    /\ page.component = "DashboardPage" /\ page.handler = "none"
    /\ Starting
    /\ IF ~page.meetings
       THEN /\ upcoming' = <<>>
            /\ page' = [page EXCEPT !.outcome = "failed"]
       ELSE /\ page' = [page EXCEPT !.handler = "latest", !.loadingUpcoming = TRUE,
                                     !.outcome = "none"]
            /\ UNCHANGED upcoming
    /\ UNCHANGED <<arg, text, header, now, normalized>>
    /\ UNCHANGED calRest
    /\ UNCHANGED dashVars

\* the answer to the request of fetchUpcomingFromLatest arrives
LatestResponse(ans) ==
    /\ page.handler = "latest"
    /\ IF ans.http # 200
       THEN /\ ClearUpcoming
            /\ page' = [page EXCEPT !.handler = "none", !.loadingUpcoming = FALSE,
                                     !.outcome = "failed"]
       ELSE /\ FillUpcoming(ans.normalized)
            /\ page' = [page EXCEPT !.handler = "none", !.loadingUpcoming = FALSE,
                                     !.outcome = "loaded"]
    /\ UNCHANGED now
    /\ UNCHANGED calRest
    /\ UNCHANGED dashVars

NextLoad ==
    \/ fetchSummary
    \/ \E ans \in SummaryAnswers : SummaryResponse(ans)
    \/ startSummarize
    \/ \E http \in {0, 200, 500} : KickResponse(http)
    \/ \E ans \in SummaryAnswers : PollResponse(ans)
    \/ fetchUpcomingFromLatest
    \/ \E ans \in SummaryAnswers : LatestResponse(ans)

SpecLoad == InitLoad /\ [][NextLoad]_vars

(***************************************************************************)
(* Specification of Dashboard.js with its meetings: the handlers run       *)
(* concurrently, each call awaiting its own answer.  The calendar panel is *)
(* mounted with the upcoming prop and at rest; its drafts effect runs      *)
(* whenever upcoming is set.                                               *)
(***************************************************************************)
\* ids of the meetings of the user, in the order of the list
Mids == <<1, 2>>
MeetingIds == { Mids[i] : i \in DOMAIN Mids }

\* polls of one startSummarize call the backend answers before the summary
\* is ready or failed
MaxPending == 1

\* clicks of the user on the page
MaxClicks == 3

Click == clicks < MaxClicks /\ clicks' = clicks + 1

\* a call in progress: the handler, its meeting, the attempts of its poll
\* loop, and the selectedId of the render it was called from
Req(handler, mid, attempts, sel) ==
    [handler |-> handler, mid |-> mid, attempts |-> attempts, sel |-> sel]

\* the summary of a meeting at the backend: meeting 1 comes with a schedule
\* suggestion, meeting 2 with a date in its text
PayloadOf(mid, st) ==
    IF mid = 1
    THEN Normalized(st, SuggArray(<<Sugg("Budget review", ISOStr(2026, 1, 15, 10, 0),
                                         NullISO, "quote")>>), BundleEmpty)
    ELSE Normalized(st, SuggAbsent, BundleIso)

\* answers to GET /summary of a meeting
FetchAnswers(mid) ==
    { [http |-> 500, normalized |-> NoNormalized],
      [http |-> 200, normalized |-> PayloadOf(mid, "ready")] }

PollAnswers(r) ==
    { [http |-> 0, normalized |-> NoNormalized],
      [http |-> 200, normalized |-> PayloadOf(r.mid, "ready")],
      [http |-> 200, normalized |-> PayloadOf(r.mid, "error")] }
    \cup IF r.attempts < MaxPending
         THEN { [http |-> 500, normalized |-> NoNormalized],
                [http |-> 200, normalized |-> PayloadOf(r.mid, "processing")] }
         ELSE {}

\* the effect on selectedId: fetchSummary(selectedId); fetchTranscripts(selectedId)
SelectedIdEffect(m) == { Req("fetchSummary", m, 0, 0), Req("fetchTranscripts", m, 0, 0) }

\* the drafts effect of the calendar panel on the new upcoming prop
DraftsEffect == drafts' = DraftsFrom(upcoming', tz, now)

\* Dashboard.js after its first render: fetchMeetings() called by the effect
InitDash ==
    /\ MinerIdle
    /\ tz = -300
    /\ panel = "drafts"
    /\ upcoming = <<>>
    /\ drafts = <<>>
    /\ composer = [title |-> "Follow-up meeting", date |-> EmptyDate,
                   startTime |-> EmptyTime, endTime |-> EmptyTime]
    /\ busy = FALSE
    /\ err = NoErr
    /\ events = <<>>
    /\ connected = FALSE
    /\ inflight = NoRequests
    /\ lastBody = NoBody
    /\ userChanges = 0
    /\ normalized = NoNormalized
    /\ page = [component |-> "Dashboard", handler |-> "none", attempts |-> 0,
               summary |-> "empty", loadingUpcoming |-> FALSE, meetings |-> TRUE,
               outcome |-> "none"]
    /\ meetings = {}
    /\ selectedId = 0
    /\ deletingId = 0
    /\ requests = { Req("fetchMeetings", 0, 0, 0) }
    /\ owner = [summary |-> 0, transcripts |-> 0]
    /\ clicks = 0

\* the answer to fetchMeetings arrives: the list is set and, selectedId being
\* null in the render that called it, its first meeting is selected
fetchMeetingsDone(r, ok) ==
    /\ r \in requests /\ r.handler = "fetchMeetings"
    /\ IF ok
       THEN /\ meetings' = MeetingIds
            /\ selectedId' = IF r.sel = 0 THEN Mids[1] ELSE selectedId
            /\ requests' = (requests \ {r}) \cup
                           (IF r.sel = 0 THEN SelectedIdEffect(Mids[1]) ELSE {})
       ELSE /\ meetings' = {}
            /\ requests' = requests \ {r}
            /\ UNCHANGED selectedId
    /\ UNCHANGED <<deletingId, owner, clicks, normalized, page, upcoming, drafts>>
    /\ UNCHANGED minerVars
    /\ UNCHANGED panelRest

\* click on a meeting of the list: setSelectedId(m.id), and the effect
selectMeeting(m) ==
    /\ m \in meetings /\ m # selectedId
    /\ Click
    /\ selectedId' = m
    /\ requests' = requests \cup SelectedIdEffect(m)
    /\ UNCHANGED <<meetings, deletingId, owner, normalized, page, upcoming, drafts>>
    /\ UNCHANGED minerVars
    /\ UNCHANGED panelRest

\* the answer to the request of fetchSummary(mid) arrives
fetchSummaryDone(r, ans) ==
    /\ r \in requests /\ r.handler = "fetchSummary"
    /\ requests' = requests \ {r}
    /\ IF ans.http # 200
       THEN /\ ClearUpcoming
            /\ page' = [page EXCEPT !.summary = "empty"]
            /\ owner' = [owner EXCEPT !.summary = 0]
       ELSE /\ FillUpcoming(ans.normalized)
            /\ page' = [page EXCEPT
                          !.summary = IF ans.normalized.status # "" THEN ans.normalized.status
                                      ELSE IF ans.normalized.bundle.arg = "string" THEN "ready"
                                      ELSE "empty"]
            /\ owner' = [owner EXCEPT !.summary = r.mid]
    /\ DraftsEffect
    /\ UNCHANGED <<now, meetings, selectedId, deletingId, clicks>>
    /\ UNCHANGED panelRest

\* the answer to the request of fetchTranscripts(mid) arrives: the files of
\* the meeting, or [] when the request failed
fetchTranscriptsDone(r, ok) ==
    /\ r \in requests /\ r.handler = "fetchTranscripts"
    /\ requests' = requests \ {r}
    /\ owner' = [owner EXCEPT !.transcripts = IF ok THEN r.mid ELSE 0]
    /\ UNCHANGED <<meetings, selectedId, deletingId, clicks, normalized, page, upcoming, drafts>>
    /\ UNCHANGED minerVars
    /\ UNCHANGED panelRest

\* click on Summarize (enabled when transcripts is not empty):
\* startSummarize(selected.id) up to the await of the POST
summarizeClick ==
    /\ selectedId \in meetings
    /\ owner.transcripts # 0
    /\ Click
    /\ page' = [page EXCEPT !.summary = "processing"]
    /\ requests' = requests \cup { Req("kick", selectedId, 0, 0) }
    /\ UNCHANGED <<meetings, selectedId, deletingId, owner, normalized, upcoming, drafts>>
    /\ UNCHANGED minerVars
    /\ UNCHANGED panelRest

\* the answer to POST /summarize arrives: http 0 rejects the handler
kickDone(r, http) ==
    /\ r \in requests /\ r.handler = "kick"
    /\ IF http = 0
       THEN /\ requests' = requests \ {r}
            /\ UNCHANGED <<arg, text, header, dash, upl, upcoming, normalized, page, owner>>
       ELSE IF http # 200
       THEN /\ requests' = requests \ {r}
            /\ ClearUpcoming
            /\ page' = [page EXCEPT !.summary = "error"]
            /\ owner' = [owner EXCEPT !.summary = r.mid]
       ELSE /\ requests' = (requests \ {r}) \cup { Req("poll", r.mid, 0, 0) }
            /\ UNCHANGED <<arg, text, header, dash, upl, upcoming, normalized, page, owner>>
    /\ DraftsEffect
    /\ UNCHANGED <<now, meetings, selectedId, deletingId, clicks>>
    /\ UNCHANGED panelRest

\* the answer to a poll of startSummarize(mid) arrives
pollDone(r, ans) ==
    /\ r \in requests /\ r.handler = "poll"
    /\ IF ans.http = 0
       THEN /\ requests' = requests \ {r}
            /\ UNCHANGED <<arg, text, header, dash, upl, upcoming, normalized, page, owner>>
       ELSE IF ans.http = 200 /\ ans.normalized.status = "ready"
       THEN /\ requests' = requests \ {r}
            /\ FillUpcoming(ans.normalized)
            /\ page' = [page EXCEPT !.summary = "ready"]
            /\ owner' = [owner EXCEPT !.summary = r.mid]
       ELSE IF ans.http = 200 /\ ans.normalized.status = "error"
       THEN /\ requests' = requests \ {r}
            /\ ClearUpcoming
            /\ page' = [page EXCEPT !.summary = "error"]
            /\ owner' = [owner EXCEPT !.summary = r.mid]
       ELSE IF r.attempts + 1 < MaxAttempts
       THEN /\ requests' = (requests \ {r}) \cup { [r EXCEPT !.attempts = @ + 1] }
            /\ UNCHANGED <<arg, text, header, dash, upl, upcoming, normalized, page, owner>>
       ELSE /\ requests' = requests \ {r}
            /\ ClearUpcoming
            /\ page' = [page EXCEPT !.summary = "error"]
            /\ owner' = [owner EXCEPT !.summary = r.mid]
    /\ DraftsEffect
    /\ UNCHANGED <<now, meetings, selectedId, deletingId, clicks>>
    /\ UNCHANGED panelRest

\* click on Delete of meeting m, confirmed: handleDelete(m) up to the await
handleDelete(m) ==
    /\ m \in meetings /\ deletingId # m
    /\ Click
    /\ deletingId' = m
    /\ requests' = requests \cup { Req("delete", m, 0, selectedId) }
    /\ UNCHANGED <<meetings, selectedId, owner, normalized, page, upcoming, drafts>>
    /\ UNCHANGED minerVars
    /\ UNCHANGED panelRest

\* the answer to DELETE arrives: on 204 the meeting leaves the list and, if it
\* was the selected one when Delete was clicked, the selection is cleared (the
\* effect on selectedId returns at once on null)
deleteDone(r, status) ==
    /\ r \in requests /\ r.handler = "delete"
    /\ requests' = requests \ {r}
    /\ IF status = 204
       THEN /\ meetings' = meetings \ {r.mid}
            /\ selectedId' = IF r.sel = r.mid THEN 0 ELSE selectedId
       ELSE UNCHANGED <<meetings, selectedId>>
    /\ deletingId' = 0
    /\ UNCHANGED <<owner, clicks, normalized, page, upcoming, drafts>>
    /\ UNCHANGED minerVars
    /\ UNCHANGED panelRest

NextDash ==
    \/ \E r \in requests, ok \in BOOLEAN : fetchMeetingsDone(r, ok)
    \/ \E m \in MeetingIds : selectMeeting(m)
    \/ \E r \in requests : \E ans \in FetchAnswers(r.mid) : fetchSummaryDone(r, ans)
    \/ \E r \in requests, ok \in BOOLEAN : fetchTranscriptsDone(r, ok)
    \/ summarizeClick
    \/ \E r \in requests, http \in {0, 200, 500} : kickDone(r, http)
    \/ \E r \in requests : \E ans \in PollAnswers(r) : pollDone(r, ans)
    \/ \E m \in MeetingIds : handleDelete(m)
    \/ \E r \in requests, status \in {0, 204, 500} : deleteDone(r, status)

SpecDash == InitDash /\ [][NextDash]_vars

(***************************************************************************)
(* Properties of the miner                                                 *)
(***************************************************************************)
Range(seq) == { seq[i] : i \in 1..Len(seq) }
Starts(seq) == { seq[i].start_iso : i \in 1..Len(seq) }
Sources(seq) == [i \in 1..Len(seq) |-> seq[i].source]
Min(a, b) == IF a < b THEN a ELSE b
StartOf(e) == ParseLocalISO(e.start_iso)

\* the matches of a text in scan order: ISO, then slash, then month-name
ScanOrder(txt) == matchAll(txt, "iso") \o matchAll(txt, "slash") \o matchAll(txt, "month")

RECURSIVE IsSubseq(_, _)
IsSubseq(a, b) ==
    IF a = <<>> THEN TRUE
    ELSE IF b = <<>> THEN FALSE
    ELSE IF Head(a) = Head(b) THEN IsSubseq(Tail(a), Tail(b))
    ELSE IsSubseq(a, Tail(b))

\* index of the first candidate of out with the given start_iso
FirstIdx(out, s) == CHOOSE i \in 1..Len(out) :
    /\ out[i].start_iso = s
    /\ \A j \in 1..(i - 1) : out[j].start_iso # s

Runs == {dash, upl}

\* C3 (as claimed): every returned event starts strictly after now, in both
\* implementations
C3_StrictlyAfterNow ==
    \A r \in Runs : r.ran => \A e \in Range(r.result) : After(StartOf(e), now)

\* C4: the returned list has no two events with the same start_iso, the
\* candidates are taken in scan order (ISO, slash, month-name, each left to
\* right), and the event kept for a start_iso is the first candidate with it
C4_DedupFirstWins ==
    \A r \in Runs : r.ran =>
        /\ \A i, j \in 1..Len(r.result) :
              r.result[i].start_iso = r.result[j].start_iso => i = j
        /\ IsSubseq(Sources(r.out), ScanOrder(text))
        /\ \A e \in Range(r.result) : e = r.out[FirstIdx(r.out, e.start_iso)]

\* a month-name match stands left of an ISO match with the same start in the
\* text, and both runs kept the ISO one
C4_Witness ==
    /\ dash.ran /\ upl.ran
    /\ \A r \in Runs :
          \E i, j \in 1..Len(r.out) :
              /\ i < j
              /\ r.out[i].start_iso = r.out[j].start_iso
              /\ r.out[i].source.kind = "iso" /\ r.out[j].source.kind = "month"
              /\ r.out[i] \in Range(r.result)
              /\ r.out[j] \notin Range(r.result)
    /\ \E a, b \in 1..Len(text) : a < b /\ text[a].kind = "month" /\ text[b].kind = "iso"

\* C5: before the cap, de-duplication drops a candidate only if an earlier
\* candidate has exactly its start_iso: every start_iso of out is still
\* there, and what remains are candidates of out in their order
C5_DedupOnlyExact ==
    \A r \in Runs : r.ran =>
        /\ Starts(r.dedup) = Starts(r.out)
        /\ IsSubseq(r.dedup, r.out)
        /\ \A i \in 1..Len(r.out) :
              r.out[i] \in Range(r.dedup)
              \/ \E j \in 1..(i - 1) : r.out[j].start_iso = r.out[i].start_iso

\* both runs kept two candidates of the same day at different times
C5_Witness ==
    /\ dash.ran /\ upl.ran
    /\ \A r \in Runs :
          \E e, f \in Range(r.dedup) :
              /\ e.start_iso # f.start_iso
              /\ e.start_iso.y = f.start_iso.y
              /\ e.start_iso.mo = f.start_iso.mo
              /\ e.start_iso.d = f.start_iso.d

\* C6: at most 8 events from Dashboard.js, at most 12 from UploadsPage.js
C6_Cap ==
    /\ dash.ran => Len(dash.result) <= CapDashboard
    /\ upl.ran => Len(upl.result) <= CapUploads

\* both runs had more distinct future candidates than their cap
C6_Witness ==
    /\ dash.ran /\ Len(dash.dedup) > CapDashboard /\ Len(dash.result) = CapDashboard
    /\ upl.ran /\ Len(upl.dedup) > CapUploads /\ Len(upl.result) = CapUploads

\* C7 (as claimed): in both implementations the retained events are exactly
\* the first <cap> de-duplicated candidates in pass order
C7_FirstInPassOrder_Original ==
    /\ dash.ran => Range(dash.result) = Range(Slice(dash.dedup, CapDashboard))
    /\ upl.ran => Range(upl.result) = Range(Slice(upl.dedup, CapUploads))

\* C7 (amended): Dashboard.js returns exactly the first 8 de-duplicated
\* candidates in pass order; UploadsPage.js returns the 12 de-duplicated
\* candidates with the earliest start, whatever their place in pass order
C7_Retention ==
    /\ dash.ran =>
          /\ Len(dash.result) = Min(CapDashboard, Len(dash.dedup))
          /\ \A i \in 1..Len(dash.result) : dash.result[i] = dash.dedup[i]
    /\ upl.ran =>
          /\ Len(upl.result) = Min(CapUploads, Len(upl.dedup))
          /\ Range(upl.result) \subseteq Range(upl.dedup)
          /\ \A e \in Range(upl.dedup) \ Range(upl.result) :
                \A k \in Range(upl.result) : StartOf(k) < StartOf(e)

\* both runs dropped candidates, and UploadsPage.js kept one that is not
\* among the first 12 in pass order
C7_Witness ==
    /\ dash.ran /\ Len(dash.dedup) > CapDashboard
    /\ upl.ran /\ Len(upl.dedup) > CapUploads
    /\ Range(upl.result) # Range(Slice(upl.dedup, CapUploads))

\* C8: the list returned by UploadsPage.js is in ascending order of start,
\* and the sort precedes the cap: no dropped candidate starts before a
\* returned one
C8_SortedBeforeCap ==
    upl.ran =>
        /\ \A i \in 1..(Len(upl.result) - 1) :
              StartOf(upl.result[i]) <= StartOf(upl.result[i + 1])
        /\ \A e \in Range(upl.dedup) :
              e \notin Range(upl.result) =>
                  \A i \in 1..Len(upl.result) : StartOf(upl.result[i]) <= StartOf(e)

\* the de-duplicated list was out of order and longer than the cap
C8_Witness ==
    /\ upl.ran /\ Len(upl.dedup) > CapUploads
    /\ \E i \in 1..(Len(upl.dedup) - 1) : StartOf(upl.dedup[i]) > StartOf(upl.dedup[i + 1])

\* C9: in Dashboard.js a month-name match without a year whose date in the
\* current calendar year is before now is emitted one year later; a
\* month-name match with a year is emitted with its own date or not at all
C9_RollForwardDashboard ==
    dash.ran =>
        \A k \in 1..Len(text) :
            LET m == text[k]
                dt0 == DashMonthDate0(m, now)
                rolled == SetFullYearPlusOne(dt0)
            IN  m.kind = "month" =>
                  /\ (~m.hasYear /\ Fields(dt0).y = CurrentYear(now) /\ Before(dt0, now)) =>
                        /\ Fields(rolled).y = CurrentYear(now) + 1
                        /\ \E e \in Range(dash.out) :
                              e.source = m /\ e.start_iso = toLocalISO(rolled)
                        /\ toLocalISO(rolled) \in Starts(dash.dedup)
                  /\ m.hasYear =>
                        /\ \A e \in Range(dash.out) :
                              e.source = m => e.start_iso = toLocalISO(dt0)
                        /\ ~After(dt0, now) => \A e \in Range(dash.out) : e.source # m

\* a year-less month-name date already past this year was returned with next
\* year's date
C9_Witness ==
    /\ dash.ran
    /\ \E e \in Range(dash.result) :
          /\ e.source.kind = "month" /\ ~e.source.hasYear
          /\ Before(DashMonthDate0(e.source, now), now)
          /\ e.start_iso.y = CurrentYear(now) + 1

\* C10 (as claimed): in UploadsPage.js, when the header gives no anchor year,
\* a month-name match without a year whose date in the current calendar year
\* is before now is emitted one year later
C10_RollForwardUploads ==
    (upl.ran /\ AnchorYear(header) = 0) =>
        \A k \in 1..Len(text) :
            LET m == text[k]
                dt0 == UplMonthDate(m, 0, now)
            IN  (m.kind = "month" /\ ~m.hasYear
                 /\ Fields(dt0).y = CurrentYear(now) /\ Before(dt0, now)) =>
                    \E e \in Range(upl.out) :
                        e.source = m /\ e.start_iso = toLocalISO(SetFullYearPlusOne(dt0))

\* the years the clock can show during a scan started at n
ClockYears(n) ==
    {Fields(n.min).y} \cup (IF CanTurn(n) THEN {Fields(n.min).y + 1} ELSE {})

\* the year the precedence rule gives a slash or month-name match, the
\* current calendar year being cy
ClaimedYear(m, anchorYear, cy) ==
    IF m.hasYear THEN (IF m.kind = "slash" /\ m.y < 100 THEN 2000 + m.y ELSE m.y)
    ELSE IF anchorYear # 0 THEN anchorYear
    ELSE cy

\* the Date of a slash or month-name match once its year is y
DateWithYear(m, y) ==
    NewDate(y, m.mo - 1, m.d, HourOf(parseTimeBits(m)), MinuteOf(parseTimeBits(m)))

\* C11: the date of a slash or month-name candidate is built with the year
\* written in the match (a two-digit slash year yy as 2000 + yy), else with
\* the anchor year when the header gave one (UploadsPage.js only; Dashboard.js
\* derives none), else with the current year, the year the clock shows during
\* the scan; a candidate whose date with that year is in the future is
\* emitted.  The roll-forward of Dashboard.js then moves a past year-less
\* month-name date one year on.
C11_YearPrecedence ==
    /\ upl.ran =>
          /\ \A e \in Range(upl.out) :
                e.source.kind \in {"slash", "month"} =>
                    \E cy \in ClockYears(now) :
                        e.start_iso = toLocalISO(DateWithYear(e.source,
                                          ClaimedYear(e.source, AnchorYear(header), cy)))
          /\ \A k \in 1..Len(text) :
                (text[k].kind \in {"slash", "month"}
                 /\ \A cy \in ClockYears(now) :
                       After(DateWithYear(text[k], ClaimedYear(text[k], AnchorYear(header), cy)),
                             now)) =>
                    \E e \in Range(upl.out) : e.source = text[k]
    /\ dash.ran =>
          /\ \A e \in Range(dash.out) :
                e.source.kind \in {"slash", "month"} =>
                    \E cy \in ClockYears(now) :
                        \E dt \in {DateWithYear(e.source, ClaimedYear(e.source, 0, cy))} :
                            \/ e.start_iso = toLocalISO(dt)
                            \/ /\ e.source.kind = "month" /\ ~e.source.hasYear
                               /\ Before(dt, now)
                               /\ e.start_iso = toLocalISO(SetFullYearPlusOne(dt))
          /\ \A k \in 1..Len(text) :
                (text[k].kind \in {"slash", "month"}
                 /\ \A cy \in ClockYears(now) :
                       After(DateWithYear(text[k], ClaimedYear(text[k], 0, cy)), now)) =>
                    \E e \in Range(dash.out) : e.source = text[k]

\* the header gave an anchor year other than the current year; a year-less
\* slash date was emitted in the anchor year and a date with a written year
\* in its own year
C11_Witness ==
    /\ upl.ran
    /\ AnchorYear(header) # 0 /\ AnchorYear(header) # CurrentYear(now)
    /\ \E e \in Range(upl.result) :
          /\ e.source.kind = "slash" /\ ~e.source.hasYear
          /\ e.start_iso.y = AnchorYear(header)
    /\ \E e \in Range(upl.result) :
          /\ e.source.hasYear /\ e.source.kind \in {"slash", "month"}
          /\ e.start_iso.y # AnchorYear(header)

\* length of a month of the calendar
DaysInMonth(y, mo) ==
    IF mo = 2 THEN (IF (y % 4 = 0 /\ y % 100 # 0) \/ y % 400 = 0 THEN 29 ELSE 28)
    ELSE IF mo \in {4, 6, 9, 11} THEN 30 ELSE 31

\* the match writes a real calendar date and, if any, a real 24-hour time
ValidIso(m) ==
    /\ m.kind = "iso"
    /\ m.mo \in 1..12 /\ m.d \in 1..DaysInMonth(m.y, m.mo)
    /\ m.hasTime => (m.h \in 0..23 /\ m.mi \in 0..59)

\* now is before the day written in the match
DayAfterNow(m, n) ==
    ParseLocalISO([y |-> m.y, mo |-> m.mo, d |-> m.d, hh |-> 0, mm |-> 0]) > n.min

\* the event the claim expects of a valid ISO match
IsoExpected(m) ==
    [title |-> "Follow-up meeting",
     start_iso |-> [y |-> m.y, mo |-> m.mo, d |-> m.d,
                    hh |-> IF m.hasTime THEN m.h ELSE 10, mm |-> IF m.hasTime THEN m.mi ELSE 0],
     end_iso |-> NullISO, description |-> <<"Auto-detected: ", m>>, source |-> m]

\* C12: in both implementations a text whose only match is a valid ISO date
\* of a day after now returns exactly one event: it starts on that date at
\* 10:00 local time, or at the written HH:MM, and its description is
\* "Auto-detected: " followed by the match; in any text every such ISO match
\* yields exactly that candidate
C12_IsoDefaultTime ==
    \A r \in Runs : r.ran =>
        /\ \A k \in 1..Len(text) :
              (ValidIso(text[k]) /\ DayAfterNow(text[k], now)) =>
                  /\ IsoExpected(text[k]) \in Range(r.out)
                  /\ \A e \in Range(r.out) : e.source = text[k] => e = IsoExpected(text[k])
        /\ (Len(text) = 1 /\ ValidIso(text[1]) /\ DayAfterNow(text[1], now)) =>
              r.result = <<IsoExpected(text[1])>>

\* both implementations scanned a text that is one ISO date without a time,
\* of a day after now, and returned the one event at 10:00
C12_Witness ==
    /\ dash.ran /\ upl.ran
    /\ Len(text) = 1 /\ ValidIso(text[1]) /\ ~text[1].hasTime /\ DayAfterNow(text[1], now)
    /\ Len(dash.result) = 1 /\ dash.result[1].start_iso.hh = 10
    /\ Len(upl.result) = 1 /\ upl.result[1].start_iso.hh = 10

\* the 24-hour hour the disambiguation rule gives hour h with suffix ap
ClaimedHour(h, ap) ==
    IF ap = "pm" /\ h < 12 THEN h + 12
    ELSE IF ap = "am" /\ h = 12 THEN 0
    ELSE IF ap = "" /\ h <= 7 THEN h + 12
    ELSE h

\* the match writes a real calendar date (the year aside)
ValidDay(m) == m.mo \in 1..12 /\ m.d \in 1..DaysInMonth(2025, m.mo)

\* C13: for a slash or month-name match with a time expression of hour h in
\* 0..23, parseTimeBits gives the hour h + 12 when the suffix is pm and
\* h < 12, 0 when it is am and h = 12, h + 12 when there is no suffix and
\* h <= 7, else h, which is in 0..23, and the written minutes or 0; without
\* a time expression the time is 10:00; the emitted event carries that time
C13_TimeBits ==
    /\ \A k \in 1..Len(text) :
          (text[k].kind \in {"slash", "month"} /\ text[k].hasTime) =>
              /\ ~parseTimeBits(text[k]).isNull
              /\ parseTimeBits(text[k]).h24 = ClaimedHour(text[k].h, text[k].ap)
              /\ text[k].h \in 0..23 => parseTimeBits(text[k]).h24 \in 0..23
              /\ parseTimeBits(text[k]).m = IF text[k].hasMin THEN text[k].mi ELSE 0
    /\ \A r \in Runs : r.ran =>
          \A e \in Range(r.out) :
              (e.source.kind \in {"slash", "month"} /\ ValidDay(e.source)
               /\ e.source.h \in 0..23 /\ e.source.mi \in 0..59) =>
                  /\ e.start_iso.mo = e.source.mo /\ e.start_iso.d = e.source.d
                  /\ e.start_iso.hh = IF e.source.hasTime
                                       THEN ClaimedHour(e.source.h, e.source.ap) ELSE 10
                  /\ e.start_iso.mm = IF e.source.hasTime /\ e.source.hasMin
                                       THEN e.source.mi ELSE 0
    /\ \A r \in Runs :
          (r.ran /\ text \in TimeTexts) => Len(r.result) = 1 /\ r.result[1].source = text[1]

\* both implementations returned the event of a date followed by "at 2", at
\* 14:00
C13_Witness ==
    /\ dash.ran /\ upl.ran
    /\ \A r \in Runs :
          \E e \in Range(r.result) :
              /\ e.source.hasTime /\ e.source.h = 2 /\ e.source.ap = "" /\ ~e.source.hasMin
              /\ e.start_iso.hh = 14 /\ e.start_iso.mm = 0

\* C14 (as claimed): every returned event has the month, day, hour and
\* minute written in its match (the hour after the am/pm disambiguation, the
\* time 10:00 when none is written); so a fragment that writes no real date
\* or time yields no event
C14_MalformedSkipped ==
    \A r \in Runs : r.ran =>
        \A e \in Range(r.result) :
            /\ e.start_iso.mo = e.source.mo
            /\ e.start_iso.d = e.source.d
            /\ e.start_iso.hh = IF ~e.source.hasTime THEN 10
                                 ELSE IF e.source.kind = "iso" THEN e.source.h
                                 ELSE ClaimedHour(e.source.h, e.source.ap)
            /\ e.start_iso.mm = IF e.source.hasTime /\ e.source.hasMin THEN e.source.mi ELSE 0

\* C15: a call with the empty string, null, undefined, a value that is not a
\* string, or a string without a match of any recognizer returns the empty
\* list and does not throw
C15_EmptyOnNoInput ==
    \A r \in Runs :
        (r.ran /\ (arg # "string" \/ ScanOrder(text) = <<>>)) =>
            r.result = <<>> /\ ~r.threw

\* both implementations were called with a number
C15_Witness ==
    /\ arg = "number"
    /\ dash.ran /\ upl.ran
    /\ dash.result = <<>> /\ upl.result = <<>>

\* the scan of txt started at n that ends within the year of n
Steady(txt, n) == Clock(n, Len(txt))

\* C16 (as claimed): the list returned for a text is the one computed from
\* the text and now alone, the year of the year-less dates being the year of
\* now; so two calls with the same text and the same now return the same list
C16_Deterministic ==
    /\ (dash.ran /\ arg = "string") =>
          dash.result = extractUpcomingFromText_Dashboard(text, Steady(text, now)).result
    /\ (upl.ran /\ arg = "string") =>
          upl.result = extractUpcomingFromText_Uploads(text, header, Steady(text, now)).result

(***************************************************************************)
(* Properties of the summary loading                                       *)
(***************************************************************************)
\* C17: when a summary has been loaded (by fetchSummary, by the ready branch
\* of startSummarize or by fetchUpcomingFromLatest) and its
\* schedule_suggestions is a non-empty array, upcoming has the length of the
\* suggestions and, place by place, their start_iso and end_iso, and the
\* handler did not call extractUpcomingFromText; a handler calls it only when
\* schedule_suggestions is missing, not an array, or empty
C17_SuggestionsFirst ==
    /\ (page.outcome = "loaded" /\ normalized.schedule_suggestions.kind = "array"
        /\ Len(normalized.schedule_suggestions.items) > 0) =>
          /\ Len(upcoming) = Len(normalized.schedule_suggestions.items)
          /\ \A i \in 1..Len(upcoming) :
                /\ upcoming[i].start_iso = normalized.schedule_suggestions.items[i].start_iso
                /\ upcoming[i].end_iso = normalized.schedule_suggestions.items[i].end_iso
          /\ ~dash.ran /\ ~upl.ran
    /\ (dash.ran \/ upl.ran) =>
          /\ page.outcome = "loaded"
          /\ \/ normalized.schedule_suggestions.kind # "array"
             \/ normalized.schedule_suggestions.items = <<>>

\* a summary with more suggestions than either cap, with a past one and with
\* equal starts, was loaded, and a bundle text with a date was not scanned
C17_Witness ==
    /\ page.outcome = "loaded"
    /\ Len(normalized.schedule_suggestions.items) > CapUploads
    /\ Len(upcoming) > CapUploads
    /\ normalized.bundle.text # <<>>
    /\ \E i, j \in 1..Len(upcoming) : i < j /\ upcoming[i].start_iso = upcoming[j].start_iso
    /\ ~dash.ran /\ ~upl.ran

(***************************************************************************)
(* Properties of the calendar panels                                       *)
(***************************************************************************)
\* local minutes of a date input and a time input taken together
SameDay(date, time) == NewDate(date.y, date.mo - 1, date.d, time.hh, time.mm)
NextDay(date, time) == NewDate(date.y, date.mo - 1, date.d + 1, time.hh, time.mm)

\* C1 (as claimed): when the same-day end of the submitted draft is not after
\* its start, the body sent by createFromDraft / createFromComposer has the
\* start at date + startTime and the end at endTime on date + 1 day
C1_RolloverKeepsEndTime ==
    (lastBody.sent
     /\ SameDay(lastBody.date, lastBody.endTime) <= SameDay(lastBody.date, lastBody.startTime)) =>
        /\ LocalFields(ParseISOString(lastBody.start_iso), tz)
              = Fields(SameDay(lastBody.date, lastBody.startTime))
        /\ LocalFields(ParseISOString(lastBody.end_iso), tz)
              = Fields(NextDay(lastBody.date, lastBody.endTime))

\* date and time combine into a date-time that parses
Parses(date, time) == date.s \notin {"", "bad"} /\ time.s \notin {"", "bad"}

StartMsg == "Please set a valid date and start time."
EndMsg == "Please set a valid end time."

\* the fields of the draft the handler is called on
TheDraft ==
    IF panel = "drafts"
    THEN [date |-> drafts[1].date, startTime |-> drafts[1].start_time,
          endTime |-> drafts[1].end_time]
    ELSE [date |-> composer.date, startTime |-> composer.startTime,
          endTime |-> composer.endTime]

\* a create handler has been called and its outcome is still on display
Called == err # NoErr \/ inflight # NoRequests

\* C18: a call of createFromDraft / createFromComposer on a draft whose date
\* and start time do not combine into a parseable date-time reports the
\* invalid-start error, whatever the end; with a parseable start and an end
\* that is missing or does not parse it reports the invalid-end error; in
\* both cases nothing is sent; a body is sent only when both parse
C18_ValidationOrder ==
    /\ Called =>
          IF ~Parses(TheDraft.date, TheDraft.startTime)
          THEN err = Err(StartMsg, 0) /\ inflight = NoRequests /\ ~lastBody.sent
          ELSE IF ~Parses(TheDraft.date, TheDraft.endTime)
          THEN err = Err(EndMsg, 0) /\ inflight = NoRequests /\ ~lastBody.sent
          ELSE err.msg \notin {StartMsg, EndMsg}
    /\ lastBody.sent =>
          /\ Parses(lastBody.date, lastBody.startTime)
          /\ Parses(lastBody.date, lastBody.endTime)
          /\ lastBody.date = TheDraft.date

\* the handler was called on a draft with a valid date and start time and an
\* empty end time, and reported the invalid-end error
C18_Witness ==
    /\ TheDraft.date.s = "ymd" /\ TheDraft.startTime.s = "hm" /\ TheDraft.endTime.s = ""
    /\ err = Err(EndMsg, 0)

\* C19: a call of createFromDraft / createFromComposer that ends in a
\* validation error changes nothing but the error message: no request is
\* sent or scheduled, and the drafts, the composer fields, the events list
\* and the busy flag are as before
C19_RejectionFrame ==
    [][ (((\E i \in 1..Len(drafts) : CallCreateFromDraft(i)) \/ CallCreateFromComposer)
         /\ err'.msg \in {StartMsg, EndMsg}) =>
            /\ inflight' = NoRequests
            /\ UNCHANGED <<drafts, composer, events, busy, inflight, lastBody, connected,
                           upcoming, tz, panel>> ]_vars

\* a draft was rejected while events were listed: nothing is in flight and
\* the panel is not busy
C19_Witness ==
    /\ err.msg \in {StartMsg, EndMsg}
    /\ events # <<>>
    /\ inflight = NoRequests /\ ~busy /\ ~lastBody.sent

\* start_iso or end_iso of an item is there and parses
Parseable(iso) == iso # NullISO /\ iso # BadISO

\* the wall-clock time k minutes after the time of a local date-time string
WallClockPlus(iso, k) ==
    TimeStr(((iso.hh * 60 + iso.mm + k) \div 60) % 24, (iso.hh * 60 + iso.mm + k) % 60)

\* the draft at place i is the one the claim gives the item at place i
DraftAsClaimed(i) ==
    /\ i <= Len(drafts)
    /\ Parseable(upcoming[i].start_iso) =>
          /\ drafts[i].date = DateStr(upcoming[i].start_iso.y, upcoming[i].start_iso.mo,
                                      upcoming[i].start_iso.d)
          /\ drafts[i].start_time = WallClockPlus(upcoming[i].start_iso, 0)
          /\ upcoming[i].end_iso = NullISO =>
                drafts[i].end_time = WallClockPlus(upcoming[i].start_iso, 60)
    /\ Parseable(upcoming[i].end_iso) =>
          drafts[i].end_time = WallClockPlus(upcoming[i].end_iso, 0)

\* C20 (as claimed): every item of the upcoming list has its draft: date and
\* start_time are the local date and wall-clock time of start_iso, end_time
\* is the wall-clock time of start + 60 minutes when the item has no end_iso
\* and the wall-clock time of end_iso when it has one
C20_DefaultDuration_Original ==
    \A i \in 1..Len(upcoming) : DraftAsClaimed(i)

\* C20 (amended): the drafts are built from the first 10 items of the
\* upcoming list, one draft per item in order; for each of these, date and
\* start_time are the local date and wall-clock time of start_iso, end_time
\* is the wall-clock time of start + 60 minutes when the item has no end_iso
\* and the wall-clock time of end_iso when it has one; later items get no
\* draft
C20_DefaultDuration ==
    /\ Len(drafts) = Min(Len(upcoming), MaxDraftsShown)
    /\ \A i \in 1..Len(drafts) : DraftAsClaimed(i)

\* drafts were built from a list with an item starting at 23:30 without an
\* end (end_time 00:30) and an item with an end
C20_Witness ==
    /\ Len(drafts) = 2
    /\ \E i \in 1..2 :
          /\ upcoming[i].end_iso = NullISO /\ upcoming[i].start_iso.hh = 23
          /\ drafts[i].start_time = TimeStr(23, 30) /\ drafts[i].end_time = TimeStr(0, 30)
    /\ \E i \in 1..2 :
          /\ Parseable(upcoming[i].end_iso)
          /\ drafts[i].end_time = TimeStr(23, 15)

\* C2: in every create-event body sent by createFromDraft or
\* createFromComposer, end_iso is strictly later than start_iso
C2_EndAfterStart ==
    lastBody.sent => ParseISOString(lastBody.end_iso) > ParseISOString(lastBody.start_iso)

\* a draft whose end time equals its start time was submitted and sent
C2_Witness ==
    /\ lastBody.sent
    /\ lastBody.endTime = lastBody.startTime
    /\ inflight.create > 0

(***************************************************************************)
(* C21: a response with status 400, 401, 403 or 409 to a request of the    *)
(* calendar panel (list events, create event) is never reported as a       *)
(* calendar error or a creation failure: the only messages that carry a    *)
(* status are those of other non-OK statuses.                              *)
(***************************************************************************)
ConnectionStatuses == {400, 401, 403, 409}

C21_ConnectionErrorsNotFatal ==
    err.msg \in {"Calendar error", "Create event failed"} => err.status \notin ConnectionStatuses

(***************************************************************************)
(* C22: the anchor year of UploadsPage.js is derived from the first 600    *)
(* characters only: the year of a "Date: <Month> <Day>, <Year>" header in  *)
(* them if there is one, even behind an earlier standalone 20xx number;    *)
(* else the first standalone four-digit number starting with 20 in them;   *)
(* else none.  What the text holds beyond the 600 characters does not      *)
(* change it, and the year-less dates of the text get the year so derived. *)
(***************************************************************************)
\* the first 600 characters: the runs that have four digits there, with the
\* digits that follow them there
Region(hd) ==
    LET within == SelectSeq(hd, LAMBDA t : t.at + 4 <= HeadLen)
    IN  [i \in 1..Len(within) |->
            [within[i] EXCEPT !.more = Min(@, HeadLen - (within[i].at + 4))]]

ClaimedAnchor(hd) ==
    LET dates == SelectSeq(Region(hd), LAMBDA t : t.kind = "date" /\ t.more = 0)
        bare == SelectSeq(Region(hd), LAMBDA t : t.more = 0 /\ t.y >= 2000 /\ t.y <= 2099)
    IN  IF dates # <<>> THEN dates[1].y ELSE IF bare # <<>> THEN bare[1].y ELSE 0

C22_AnchorYear ==
    upl.ran =>
        /\ AnchorYear(header) = ClaimedAnchor(header)
        /\ AnchorYear(header) = AnchorYear(Region(header))
        /\ Len(upl.result) = Len(text)
        /\ \A e \in Range(upl.result) :
              e.start_iso.y = IF ClaimedAnchor(header) = 0 THEN Fields(now.min).y
                              ELSE ClaimedAnchor(header)

\* a standalone 20xx number, then a header with another year, then a header
\* beyond the 600 characters: the year-less dates get the year of the header
C22_Witness ==
    /\ upl.ran
    /\ Len(header) >= 2
    /\ header[1].kind = "num" /\ InHead(header[1]) /\ header[1].y \div 100 = 20
    /\ header[2].kind = "date" /\ InHead(header[2]) /\ header[2].y # header[1].y
    /\ \E e \in Range(upl.result) : ~e.source.hasYear /\ e.start_iso.y = header[2].y

\* the anchor is a number cut free by the slice: "...20261" with "2026" the
\* last four characters of the region
C22_WitnessCut ==
    /\ upl.ran
    /\ \E i \in 1..Len(header) : header[i].at + 4 = HeadLen /\ header[i].more = 1
                                  /\ AnchorYear(header) = header[i].y
                                  /\ \A j \in 1..(i - 1) : ~InHead(header[j])

(***************************************************************************)
(* C23: submissions are serialized.  At most one create request is in      *)
(* flight at any time, and while a create request or the refresh it        *)
(* triggers is in flight busy is true, so that no second create request    *)
(* can be started, whatever the order of clicks, userId changes and        *)
(* answers.                                                                *)
(***************************************************************************)
C23_Serialized ==
    /\ inflight.create + inflight.chained <= 1
    /\ inflight.create + inflight.chained > 0 => busy

(***************************************************************************)
(* C24: end-to-end default duration.  A draft built by the calendar panel  *)
(* from an extracted event (a parseable start, no end), submitted as built *)
(* through createFromDraft, gives a body whose end is its start + 60       *)
(* minutes, for every start hour.                                          *)
(***************************************************************************)
\* the body sent holds the fields of the draft built from item u
SentAsBuilt(u) ==
    /\ lastBody.sent
    /\ u.end_iso = NullISO /\ Parseable(u.start_iso)
    /\ \E d \in {DraftOf(u, tz, now)} :
          /\ lastBody.date = d.date
          /\ lastBody.startTime = d.start_time
          /\ lastBody.endTime = d.end_time

C24_EndToEndDuration ==
    panel = "drafts" =>
        \A u \in Range(upcoming) :
            SentAsBuilt(u) =>
                ParseISOString(lastBody.end_iso) = ParseISOString(lastBody.start_iso) + 60

(***************************************************************************)
(* C25: prefill keeps the instant.  For every item u with a parseable      *)
(* local start_iso and every timezone offset of the viewer, after          *)
(* prefill(u) the date and start time of the composer combine, through     *)
(* partsToISO, to the instant of u.start_iso, and the date of the composer *)
(* is the local calendar date of u.start_iso.                              *)
(***************************************************************************)
PrefillKeepsInstant(i) ==
    (UpcomingClick(i) /\ Parseable(upcoming[i].start_iso)) =>
        /\ partsToISO(composer'.date, composer'.startTime, tz)
              = toISOString(ParseLocal(upcoming[i].start_iso, tz))
        /\ composer'.date = DateStr(upcoming[i].start_iso.y, upcoming[i].start_iso.mo,
                                    upcoming[i].start_iso.d)

C25_PrefillKeepsInstant ==
    [][\A i \in 1..Len(upcoming) : PrefillKeepsInstant(i)]_vars

(***************************************************************************)
(* C26: prefill leaves no stale end time.  After prefill(u) with an item u *)
(* that has a start and no end_iso, the end time of the composer is the    *)
(* start + 60 minutes, whatever the composer held before.                  *)
(***************************************************************************)
PrefillDefaultsEnd(i) ==
    (UpcomingClick(i) /\ Parseable(upcoming[i].start_iso) /\ upcoming[i].end_iso = NullISO) =>
        composer'.endTime = WallClockPlus(upcoming[i].start_iso, 60)

C26_PrefillNoStaleEnd ==
    [][\A i \in 1..Len(upcoming) : PrefillDefaultsEnd(i)]_vars

(***************************************************************************)
(* C28: bounded polling.  After a successful kick startSummarize issues at *)
(* most 30 polls; it stops at the first poll answered with status ready or *)
(* error; when the 30th poll too is answered with a non-OK response or     *)
(* another status it ends with summary.status = error and an empty         *)
(* upcoming list.                                                          *)
(***************************************************************************)
\* the polls issued so far by the handler in progress
PollsIssued == page.attempts + 1

PollStep(ans) ==
    (PollResponse(ans) /\ ans.http # 0) =>
        IF ans.http = 200 /\ ans.normalized.status \in {"ready", "error"}
        THEN page'.handler = "none" /\ page'.summary = ans.normalized.status
        ELSE IF PollsIssued = 30
        THEN page'.handler = "none" /\ page'.summary = "error" /\ upcoming' = <<>>
        ELSE page'.handler = "poll" /\ page'.attempts = page.attempts + 1

C28_BoundedPolling ==
    /\ [](page.handler = "poll" => PollsIssued <= 30)
    /\ [][\A ans \in SummaryAnswers : PollStep(ans)]_vars

\* the 30th poll was answered and the handler ended in error
C28_Witness ==
    /\ page.handler = "none" /\ page.attempts = 30
    /\ page.summary = "error" /\ page.outcome = "failed"
    /\ upcoming = <<>>

(***************************************************************************)
(* C29: summarization never stays in processing.  Whenever startSummarize  *)
(* has finished, by any path (kick rejected, a poll answered ready or      *)
(* error, 30 polls exhausted, a request or the reading of a body failing), *)
(* summary.status is ready or error.                                       *)
(***************************************************************************)
SummarizeStep ==
    \/ \E http \in {0, 200, 500} : KickResponse(http)
    \/ \E ans \in SummaryAnswers : PollResponse(ans)

C29_NeverStuckProcessing ==
    [][(SummarizeStep /\ page'.handler = "none") => page'.summary \in {"ready", "error"}]_vars

(***************************************************************************)
(* C27: the displayed summary matches the selection.  An answer that       *)
(* belongs to a meeting other than the selected one never overwrites       *)
(* summary or upcoming, and once every request has settled summary and     *)
(* upcoming are those of the selected meeting.                             *)
(***************************************************************************)
\* upcoming holds nothing of a meeting other than m: the suggestion of
\* meeting 1 is titled "Budget review", the date mined from the text of
\* meeting 2 "Follow-up meeting"
UpcomingOnlyOf(m) ==
    \A e \in Range(upcoming) : e.title = IF m = 1 THEN "Budget review" ELSE "Follow-up meeting"

\* the answer to a call for a meeting arrives
AnswerFor(r) ==
    \/ \E ans \in FetchAnswers(r.mid) : fetchSummaryDone(r, ans)
    \/ \E http \in {0, 200, 500} : kickDone(r, http)
    \/ \E ans \in PollAnswers(r) : pollDone(r, ans)

ForeignAnswerIgnored ==
    \A r \in requests :
        (AnswerFor(r) /\ r.mid # selectedId) =>
            /\ page'.summary = page.summary
            /\ owner'.summary = owner.summary
            /\ upcoming' = upcoming

Settled == requests = {} /\ selectedId \in meetings

C27_SummaryMatchesSelection ==
    /\ [][ForeignAnswerIgnored]_vars
    /\ [](Settled => (owner.summary \in {0, selectedId} /\ UpcomingOnlyOf(selectedId)))

(***************************************************************************)
(* C30: no stale data after a deletion.  When the DELETE of the selected   *)
(* meeting is answered 204, selectedId is cleared and summary, transcripts *)
(* and upcoming no longer hold the data of the deleted meeting: upcoming   *)
(* is empty and the calendar panel shows no drafts.                        *)
(***************************************************************************)
DeletedSelected(r) == deleteDone(r, 204) /\ r.mid = selectedId

C30_NoStaleDataAfterDelete ==
    [][\A r \in requests :
          DeletedSelected(r) =>
              /\ selectedId' = 0
              /\ owner'.summary # r.mid /\ owner'.transcripts # r.mid
              /\ upcoming' = <<>> /\ drafts' = <<>>]_vars

====
